---------------------------- MODULE Spec2Model ----------------------------
(***************************************************************************)
(* A model of the fmptools decoder pipeline: header recognition and the    *)
(* two open paths (stream and mmap), the block-chain traversal of          *)
(* process_blocks / process_chunk_chain, the metadata handlers and the     *)
(* compaction of fmp_discover_all_metadata, and the row assembler of       *)
(* fmp_read_all_values.                                                    *)
(*                                                                         *)
(* The module holds several specifications over one set of variables:      *)
(*   SpecOpen   - fmp_open_file and fmp_open_buffer on one file image      *)
(*   SpecBlocks - process_blocks with a consumer that may return any code  *)
(*   SpecRead   - fmp_read_all_values on discovered metadata               *)
(*   SpecClose    - fmp_close_file on the handles the open paths return    *)
(*   SpecPath     - process_chunk_chain and the path stack                 *)
(*   SpecDiscover - fmp_discover_all_metadata                              *)
(*   SpecDefine   - the metadata handlers on chunks of every index         *)
(*   SpecValues   - process_value_for_table on value chunks                *)
(*   SpecGrow     - process_chunk and the growth of the path array         *)
(*   SpecCache    - process_blocks in mapped mode: cached and freed blocks *)
(*   SpecType     - the metadata handlers on type chunks of every length   *)
(*   SpecAssemble - the row assembler on chunks of every key and table     *)
(*   SpecSegments - the path segments as the chunk handlers read them      *)
(* A specification leaves the variables of the other parts at their        *)
(* initial values.                                                         *)
(***************************************************************************)
EXTENDS Integers, Sequences, FiniteSets, TLC

VARIABLES
    image,       \* the bytes of the input file, as far as the open paths read them
    file_res,    \* what fmp_open_file returned for image (NotCalled before the call)
    buffer_res,  \* what fmp_open_buffer returned for image (NotCalled before the call)
    close_res,   \* what fmp_close_file did with either handle (NoFile before the call)
    file,        \* the fmp_file_t a traversal runs on
    pc,          \* position of the running top-level operation
    next_block,  \* process_blocks: int next_block
    iteration,   \* process_blocks: int iteration
    blocks_visited, \* process_blocks: the indices whose blocks_visited[] entry is 1
    retval,      \* process_blocks: fmp_error_t retval
    links,       \* the next_id of the blocks loaded so far (the file, as far as read)
    chain_len,   \* number of chunks in the chunk chain of the current block
    chunk_no,    \* number of chunks of the current block already dispatched
    delivered,   \* history: per block ordinal, how often its chunk chain was delivered
    done_seen,   \* history: the consumer has returned CHUNK_DONE in this pass
    after_done,  \* history: a chunk was delivered after the consumer returned CHUNK_DONE
    metadata,    \* the fmp_metadata_t handed to fmp_read_all_values
    table_states,\* fmp_read_all_values_ctx_t.table_states (index -> table_read_state_t)
    data_no,     \* number of chunks the row assembler has been handed in this pass
    calls,       \* the invocations of the value callback made by the last step, in order
    rows_before, \* history: per table, the row of its last invocation before that step
    aborted_before, \* history: an invocation before that step returned FMP_HANDLER_ABORT
    result,      \* the status the top-level operation returned (NoStatus while running)
    names_seen,  \* history: the <<table, column>> names the metadata handler was handed
                 \* (column 0: the name of the table itself)
    last_chunk,  \* history: the chunk the metadata handler was handed last
    fragments,   \* history: the long-string fragments the row assembler was handed
    long_out,    \* history: the long strings the callback was handed, in order
    file_path,   \* file->path[0 .. path_level - 1]: the segments pushed
    path_level,  \* file->path_level
    path_capacity, \* file->path_capacity
    dispatched,  \* the chunk process_chunk handed to the consumer last
    pushes,      \* history: PATH_PUSH chunks dispatched so far in the block
    pops,        \* history: PATH_POP chunks dispatched so far in the block
    pops_at_zero,\* history: those of them dispatched at depth 0
    path_array,  \* file->path[]: every slot written so far, with what it points to
    consumer,    \* the chunk handler of the pass whose path array is followed
    block_slots, \* mapped mode: block index -> the block its file->blocks[] slot points to
    heap         \* the blocks load_block_from_mmap decoded in this pass, in order

vars == << image, file_res, buffer_res, close_res, file, pc, next_block, iteration,
           blocks_visited, retval, links, chain_len, chunk_no, delivered,
           done_seen, after_done, metadata, table_states, data_no, calls,
           rows_before, aborted_before, result, names_seen, last_chunk,
           fragments, long_out, file_path, path_level, path_capacity,
           dispatched,
           pushes, pops, pops_at_zero, path_array, consumer, block_slots, heap >>

openVars == << image, file_res, buffer_res, close_res, block_slots, heap >>
blockVars == << file, pc, next_block, iteration, blocks_visited, retval,
                links, chain_len, chunk_no, delivered, done_seen, after_done >>
readVars == << metadata, table_states, data_no, calls, rows_before,
               aborted_before, result >>
discVars == << names_seen, last_chunk, fragments, long_out >>
pathVars == << file_path, path_level, path_capacity, dispatched, pushes, pops,
              pops_at_zero, path_array, consumer >>

\* A NULL file handle, the result of an open not called yet, and the status of
\* an operation that has not returned yet.
NoFile == [null |-> TRUE]
NotCalled == [err |-> "none", file |-> NoFile]
NoStatus == "none"

(***************************************************************************)
(* Part 1.  Header recognition and the open paths.                         *)
(***************************************************************************)

\* The header tags the open paths distinguish ("OTHER": any other 5 bytes).
Tags == {"HBAM7", "HBAM3", "HBAM5", "OTHER"}

\* Values of header byte 521 (0x1E marks fmp12).
Byte521Values == {0, 30, 255}

\* The mmap threshold of fmp_open_file.
MmapThreshold == 100 * 1024 * 1024

\* File sizes of the modelled images: short files, files whose size is a
\* whole sector count of either layout, the threshold itself and sizes above it.
FileSizes == {1024, 3072, 4096, 8192, 12288, 16384,
              MmapThreshold, MmapThreshold + 4096, 100001 * 4096, 100002 * 1024}

Max(a, b) == IF a >= b THEN a ELSE b
Min(a, b) == IF a <= b THEN a ELSE b

\* The values a first block's next_id field may hold in an image of that size:
\* zero, one, and the two block counts that fit the size (v7+ and pre-v7 layout).
NextIdValues(size) ==
    {0, 1, Max(0, (size \div 4096) - 1), Max(0, (size \div 1024) - 2)}

\* An image: whether the 15 magic bytes are there, the tag at byte 15, byte 521,
\* the size, the next_id field of sector 1 read at offset 8 (f18) and of sector 2
\* read at offset 6 (f26), and whether iconv_open knows the requested charsets.
ImagesOfSize(s) ==
    { [magic_ok |-> m, tag |-> t, b521 |-> b, file_size |-> s,
       f18 |-> a, f26 |-> c, iconv_ok |-> i] :
        m \in BOOLEAN, t \in Tags, b \in Byte521Values,
        a \in NextIdValues(s), c \in NextIdValues(s), i \in BOOLEAN }

Images == UNION { ImagesOfSize(s) : s \in FileSizes }

\* calloc(1, sizeof(fmp_file_t)): every field zero.  first_sector is the sector
\* that holds block index 0 (where the open path reads the first block);
\* stream_pos is the read position of the stream.
ZeroFile ==
    [ stream |-> FALSE, use_mmap |-> FALSE, sector_size |-> 0, xor_mask |-> 0,
      prev_sector_offset |-> 0, next_sector_offset |-> 0, payload_len_offset |-> 0,
      sector_head_len |-> 0, sector_index_shift |-> 0, version_num |-> 0,
      converter |-> "NULL", file_size |-> 0, path_capacity |-> 0,
      num_blocks |-> 0, blocks_allocated |-> 0, first_sector |-> 0, stream_pos |-> 0,
      filename |-> << >> ]

\* iconv_open("UTF-8", charset): the converter, or (iconv_t)-1.
iconv_open(img, charset) == IF img.iconv_ok THEN charset ELSE "INVALID"

\* The next_id a block decoded from `sector` carries: the field at the
\* configured next offset.  The two places the open paths read are modelled.
new_block_from_sector(ctx, img, sector) ==
    [ next_id |-> IF sector = 1 /\ ctx.next_sector_offset = 8 THEN img.f18
                  ELSE IF sector = 2 /\ ctx.next_sector_offset = 6 THEN img.f26
                  ELSE 0 ]

\* A slip in the HBAM7 branch: the fmp12 marker is never recognised.
read_header_v7_no_fmp12(ctx, img) ==
    [ctx EXCEPT !.sector_size = 4096,
                !.xor_mask = 90,
                !.prev_sector_offset = 4,
                !.next_sector_offset = 8,
                !.payload_len_offset = -1,
                !.sector_head_len = 20,
                !.version_num = 7]

\* read_header, the HBAM7 branch.  The converter is left unset.
read_header_v7(ctx, img) ==
    [ctx EXCEPT !.sector_size = 4096,
                !.xor_mask = 90,
                !.prev_sector_offset = 4,
                !.next_sector_offset = 8,
                !.payload_len_offset = -1,
                !.sector_head_len = 20,
                !.version_num = IF img.b521 = 30 THEN 12 ELSE 7]

\* read_header, the branch of every other tag.  version_num and xor_mask keep
\* the zero of calloc.
read_header_pre7(ctx, img) ==
    [ctx EXCEPT !.sector_size = 1024,
                !.prev_sector_offset = 2,
                !.next_sector_offset = 6,
                !.payload_len_offset = 12,
                !.sector_head_len = 14,
                !.sector_index_shift = 1,
                !.converter = iconv_open(img, "MACINTOSH")]

\* A slip in read_header: the signature comparison is left out.
read_header_no_magic(ctx, img) ==
    IF img.file_size < 1024
    THEN [err |-> "FMP_ERROR_READ", ctx |-> ctx]
    ELSE LET c1 == IF img.tag = "HBAM7"
                   THEN read_header_v7(ctx, img)
                   ELSE read_header_pre7(ctx, img)
         IN IF c1.converter = "INVALID"
            THEN [err |-> "FMP_ERROR_UNSUPPORTED_CHARACTER_SET", ctx |-> c1]
            ELSE [err |-> "FMP_OK",
                  ctx |-> [c1 EXCEPT !.stream_pos =
                              IF c1.sector_size = 1024 THEN 2 * c1.sector_size
                              ELSE c1.sector_size]]

read_header(ctx, img) ==
    IF img.file_size < 1024
    THEN [err |-> "FMP_ERROR_READ", ctx |-> ctx]
    ELSE IF ~img.magic_ok
    THEN [err |-> "FMP_ERROR_BAD_MAGIC_NUMBER", ctx |-> ctx]
    ELSE LET c1 == IF img.tag = "HBAM7"
                   THEN read_header_v7(ctx, img)
                   ELSE read_header_pre7(ctx, img)
         IN IF c1.converter = "INVALID"
            THEN [err |-> "FMP_ERROR_UNSUPPORTED_CHARACTER_SET", ctx |-> c1]
            ELSE [err |-> "FMP_OK",
                  ctx |-> [c1 EXCEPT !.stream_pos =
                              IF c1.sector_size = 1024 THEN 2 * c1.sector_size
                              ELSE c1.sector_size]]

\* The open result: the error code and the handle (NoFile for NULL).
Failed(e) == [err |-> e, file |-> NoFile]
Opened(f) == [err |-> "FMP_OK", file |-> f]

\* A slip in the sector count test: the extra sector of the old layout is
\* never counted.
Pre7_never(ctx) == 0

Pre7(ctx) == IF ctx.version_num < 7 THEN 1 ELSE 0

fmp_file_from_stream(img) ==
    LET f0 == [ZeroFile EXCEPT !.stream = TRUE, !.path_capacity = 16,
                               !.file_size = img.file_size]
        h == read_header(f0, img)
        f1 == h.ctx
    IN IF h.err # "FMP_OK" THEN Failed(h.err)
       ELSE IF f1.stream_pos + f1.sector_size > f1.file_size
       THEN Failed("FMP_ERROR_READ")
       ELSE LET first_sector == f1.stream_pos \div f1.sector_size
                first_block == new_block_from_sector(f1, img, first_sector)
            IN IF first_block.next_id = 0
                  \/ (first_block.next_id + 1 + Pre7(f1)) * f1.sector_size # f1.file_size
               THEN Failed("FMP_ERROR_BAD_SECTOR_COUNT")
               ELSE LET more == (f1.file_size \div f1.sector_size) - first_sector - 1
                        index == Min(1 + more, first_block.next_id)
                    IN IF index # first_block.next_id
                       THEN Failed("FMP_ERROR_BAD_SECTOR_COUNT")
                       ELSE Opened([f1 EXCEPT !.num_blocks = first_block.next_id,
                                              !.blocks_allocated = first_block.next_id,
                                              !.first_sector = first_sector])

\* fmp_open_file_mmap, the HBAM7 branch of its header parse.
mmap_header_v7(f0, img) ==
    [f0 EXCEPT !.sector_size = 4096,
               !.xor_mask = 90,
               !.prev_sector_offset = 4,
               !.next_sector_offset = 8,
               !.payload_len_offset = -1,
               !.sector_head_len = 20,
               !.version_num = IF img.b521 = 30 THEN 12 ELSE 7]

\* fmp_open_file_mmap, the branch of every other tag.  The result of
\* iconv_open is stored unchecked.
mmap_header_pre7(f0, img) ==
    LET g == [f0 EXCEPT !.sector_size = 1024,
                        !.xor_mask = 0,
                        !.sector_index_shift = 9,
                        !.prev_sector_offset = 4,
                        !.next_sector_offset = 8,
                        !.payload_len_offset = 12,
                        !.sector_head_len = 14]
    IN IF img.tag = "HBAM3"
       THEN [g EXCEPT !.version_num = 3,
                      !.converter = iconv_open(img, "MACINTOSH")]
       ELSE IF img.tag = "HBAM5"
       THEN [g EXCEPT !.version_num = 5,
                      !.converter = iconv_open(img, "WINDOWS-1252")]
       ELSE g

fmp_open_file_mmap(img) ==
    LET f0 == [ZeroFile EXCEPT !.use_mmap = TRUE, !.file_size = img.file_size]
    IN IF ~img.magic_ok THEN Failed("FMP_ERROR_BAD_MAGIC_NUMBER")
       ELSE LET f1 == IF img.tag = "HBAM7"
                      THEN mmap_header_v7(f0, img)
                      ELSE mmap_header_pre7(f0, img)
                f2 == [f1 EXCEPT !.path_capacity = 16]
                first_block == new_block_from_sector(f2, img, 1)
            IN IF first_block.next_id = 0
                  \/ (first_block.next_id + 1 + Pre7(f2)) * f2.sector_size # f2.file_size
               THEN Failed("FMP_ERROR_BAD_SECTOR_COUNT")
               ELSE Opened([f2 EXCEPT !.num_blocks = first_block.next_id,
                                      !.blocks_allocated = Min(1024, first_block.next_id),
                                      !.first_sector = 1])

fmp_open_file(img) ==
    IF img.file_size > MmapThreshold
    THEN fmp_open_file_mmap(img)
    ELSE fmp_file_from_stream(img)

fmp_open_buffer(img) == fmp_file_from_stream(img)

\* The sector of the file that block index idx is decoded from: the stream
\* path reads the sectors in sequence from the position read_header left, the
\* mmap path computes (idx + 1) * sector_size.
SectorOfBlock(f, idx) ==
    IF f.use_mmap THEN idx + 1 ELSE f.first_sector + idx

\* The format parameters an open path selects.
FormatParams(f) ==
    [ sector_size |-> f.sector_size, xor_mask |-> f.xor_mask,
      prev_sector_offset |-> f.prev_sector_offset,
      next_sector_offset |-> f.next_sector_offset,
      payload_len_offset |-> f.payload_len_offset,
      sector_head_len |-> f.sector_head_len,
      sector_index_shift |-> f.sector_index_shift,
      version_num |-> f.version_num, converter |-> f.converter ]

\* Every file handle an open path returns for a modelled image.
OpenedFiles ==
    { r.file : r \in { x \in { fmp_open_file(i) : i \in Images }
                              \cup { fmp_open_buffer(i) : i \in Images } :
                        x.err = "FMP_OK" } }

\* The variables of the traversal and of the row assembler while no operation
\* of theirs runs.
NotClosed == [file |-> NoFile, buffer |-> NoFile]
IdleCache == block_slots = << >> /\ heap = << >>
IdleOpen ==
    /\ image = NoFile /\ file_res = NotCalled /\ buffer_res = NotCalled
    /\ close_res = NotClosed
    /\ IdleCache
IdleBlocks ==
    /\ file = NoFile /\ pc = "idle" /\ next_block = 0 /\ iteration = 0
    /\ blocks_visited = {} /\ retval = "FMP_OK" /\ links = << >>
    /\ chain_len = 0 /\ chunk_no = 0
    /\ delivered = << >> /\ done_seen = FALSE /\ after_done = FALSE
IdleRead ==
    /\ metadata = NoFile /\ table_states = << >> /\ data_no = 0 /\ calls = << >>
    /\ rows_before = << >> /\ aborted_before = FALSE /\ result = NoStatus

IdleDiscover ==
    names_seen = {} /\ last_chunk = NoFile /\ fragments = << >> /\ long_out = << >>
IdlePath ==
    /\ file_path = << >> /\ path_level = 0 /\ path_capacity = 0 /\ dispatched = NoFile
    /\ pushes = 0 /\ pops = 0 /\ pops_at_zero = 0
    /\ path_array = << >> /\ consumer = "none"

InitOpen ==
    /\ image \in Images
    /\ file_res = NotCalled
    /\ buffer_res = NotCalled
    /\ close_res = NotClosed
    /\ IdleCache
    /\ IdleBlocks
    /\ IdleRead
    /\ IdleDiscover
    /\ IdlePath

\* fmp_open_file(path) on the image.
OpenFile ==
    /\ file_res = NotCalled
    /\ file_res' = fmp_open_file(image)
    /\ UNCHANGED << image, buffer_res, close_res, block_slots, heap, blockVars, readVars, discVars, pathVars >>

\* fmp_open_buffer(buffer, len) on the image.
OpenBuffer ==
    /\ buffer_res = NotCalled
    /\ buffer_res' = fmp_open_buffer(image)
    /\ UNCHANGED << image, file_res, close_res, block_slots, heap, blockVars, readVars, discVars, pathVars >>

NextOpen == OpenFile \/ OpenBuffer

SpecOpen == InitOpen /\ [][NextOpen]_vars

\* The results of the two open calls on the image.
OpenResults == {file_res, buffer_res}

\* C8: the stream backend and the mapped backend, opening the same bytes,
\* select the same format parameters and decode every block index from the
\* same sector.
C8_BackendsAgree ==
    (/\ file_res.err = "FMP_OK" /\ file_res.file.use_mmap
     /\ buffer_res.err = "FMP_OK" /\ ~buffer_res.file.use_mmap)
    => /\ FormatParams(file_res.file) = FormatParams(buffer_res.file)
       /\ \A idx \in 0..3 :
            SectorOfBlock(file_res.file, idx) = SectorOfBlock(buffer_res.file, idx)

\* C9: a file with the magic signature and the tag HBAM7 is opened, by either
\* path, with sector_size 4096, xor_mask 0x5A, prev_offset 4, next_offset 8,
\* payload_len_offset -1, head_len 20 and no converter, and with version 12
\* when byte 521 is 0x1E and version 7 otherwise.
C9_V7Params ==
    \A r \in OpenResults :
        (r.err = "FMP_OK" /\ image.tag = "HBAM7")
        => /\ r.file.sector_size = 4096
           /\ r.file.xor_mask = 90
           /\ r.file.prev_sector_offset = 4
           /\ r.file.next_sector_offset = 8
           /\ r.file.payload_len_offset = -1
           /\ r.file.sector_head_len = 20
           /\ r.file.converter = "NULL"
           /\ r.file.version_num = (IF image.b521 = 30 THEN 12 ELSE 7)

\* An fmp12 image above the mmap threshold opened by both paths.
C9_Witness ==
    /\ image.tag = "HBAM7" /\ image.b521 = 30
    /\ file_res.err = "FMP_OK" /\ file_res.file.use_mmap
    /\ buffer_res.err = "FMP_OK" /\ ~buffer_res.file.use_mmap

\* C10: a file whose tag is not HBAM7 is opened, by either path, with
\* sector_size 1024, xor_mask 0, prev_offset 2, next_offset 6,
\* payload_len_offset 12, head_len 14 and sector_index_shift 1, as version 3
\* with the MACINTOSH converter for HBAM3 and as version 5 with the
\* WINDOWS-1252 converter for HBAM5.
C10_Pre7Params ==
    \A r \in OpenResults :
        (r.err = "FMP_OK" /\ image.tag # "HBAM7")
        => /\ r.file.sector_size = 1024
           /\ r.file.xor_mask = 0
           /\ r.file.prev_sector_offset = 2
           /\ r.file.next_sector_offset = 6
           /\ r.file.payload_len_offset = 12
           /\ r.file.sector_head_len = 14
           /\ r.file.sector_index_shift = 1
           /\ image.tag = "HBAM3" =>
                r.file.version_num = 3 /\ r.file.converter = "MACINTOSH"
           /\ image.tag = "HBAM5" =>
                r.file.version_num = 5 /\ r.file.converter = "WINDOWS-1252"

\* C11: opening an image of at least 1024 bytes whose first 15 bytes are not
\* the magic signature fails with FMP_ERROR_BAD_MAGIC_NUMBER and returns no
\* file handle, on the stream path and on the mapped path.
C11_BadMagic ==
    \A r \in OpenResults :
        (r # NotCalled /\ image.file_size >= 1024 /\ ~image.magic_ok)
        => r.err = "FMP_ERROR_BAD_MAGIC_NUMBER" /\ r.file = NoFile

\* An image without the signature, above the mmap threshold, refused by the
\* mapped path and by the stream path.
C11_Witness ==
    /\ ~image.magic_ok /\ image.file_size > MmapThreshold
    /\ file_res = Failed("FMP_ERROR_BAD_MAGIC_NUMBER")
    /\ buffer_res = Failed("FMP_ERROR_BAD_MAGIC_NUMBER")

\* Whether the call that produced file_res / buffer_res decoded a first block:
\* the header was accepted and the first block's sector lies in the file.
ReachedFirstBlock(img, mapped) ==
    /\ img.magic_ok
    /\ mapped \/ (/\ ~(img.tag # "HBAM7" /\ ~img.iconv_ok)
                  /\ (IF img.tag = "HBAM7" THEN 2 * 4096 ELSE 3 * 1024)
                        <= img.file_size)

\* The next_id of the first block as that call decoded it.
FirstNextId(img, mapped) ==
    IF mapped \/ img.tag = "HBAM7" THEN img.f18 ELSE img.f26

\* The sector count test of the claim on that next_id.
SectorCountFits(img, mapped) ==
    /\ FirstNextId(img, mapped) > 0
    /\ (FirstNextId(img, mapped) + 1 + (IF img.tag # "HBAM7" THEN 1 ELSE 0))
         * (IF img.tag = "HBAM7" THEN 4096 ELSE 1024) = img.file_size

SectorCountRule(r, mapped) ==
    /\ r.err = "FMP_OK" =>
          /\ SectorCountFits(image, mapped)
          /\ r.file.num_blocks = FirstNextId(image, mapped)
    /\ (r # NotCalled /\ ReachedFirstBlock(image, mapped)
           /\ ~SectorCountFits(image, mapped)) =>
          r = Failed("FMP_ERROR_BAD_SECTOR_COUNT")
    /\ (r # NotCalled /\ ReachedFirstBlock(image, mapped)
           /\ SectorCountFits(image, mapped)) =>
          r.err = "FMP_OK"

\* C12: an open succeeds only if the first block's next_id is positive and
\* (next_id + 1 + (1 if version < 7 else 0)) * sector_size equals the file
\* size; an open that decoded its first block and finds otherwise fails with
\* FMP_ERROR_BAD_SECTOR_COUNT and returns no file; on success num_blocks is
\* that next_id.  This holds on the stream path and on the mapped path.
C12_SectorCount ==
    /\ SectorCountRule(file_res, image.file_size > MmapThreshold)
    /\ SectorCountRule(buffer_res, FALSE)

\* An old-layout image above the mmap threshold: the stream path finds the
\* count that fits and opens it, the mapped path finds next_id 0 and refuses.
C12_Witness ==
    /\ image.tag = "HBAM3" /\ image.file_size > MmapThreshold
    /\ buffer_res.err = "FMP_OK"
    /\ buffer_res.file.num_blocks = (image.file_size \div 1024) - 2
    /\ file_res = Failed("FMP_ERROR_BAD_SECTOR_COUNT")

(***************************************************************************)
(* Part 1b.  fmp_close_file on the handle an open returned.                *)
(***************************************************************************)

\* What a successful open holds when it returns, by kind: the stream or the
\* descriptor and the mapping, the converter iconv_open gave, the path
\* buffer, the decoded blocks in the slots of file->blocks, and the handle.
Acquired(f) ==
    [ stream |-> IF f.stream THEN 1 ELSE 0,
      descriptor |-> IF f.use_mmap THEN 1 ELSE 0,
      mapping |-> IF f.use_mmap THEN 1 ELSE 0,
      converter |-> IF f.converter \notin {"NULL", "INVALID"} THEN 1 ELSE 0,
      path |-> 1,
      blocks |-> IF f.use_mmap THEN 1 ELSE f.blocks_allocated,
      handle |-> 1 ]

\* What the slots of file->blocks past the allocated ones may hold when
\* fmp_close_file reads them: all NULL, or a pointer that is none of open's.
BeyondSlots(f) ==
    IF f.num_blocks > f.blocks_allocated THEN {"NULL", "wild"} ELSE {"none"}

\* fmp_close_file: what it releases, by kind, how many slots of file->blocks
\* it reads (the slots 0 .. slots_read - 1), and whether it frees a pointer
\* found past the allocated slots.
fmp_close_file(f, beyond) ==
    [ released |->
        [ stream |-> IF f.stream THEN 1 ELSE 0,
          descriptor |-> IF f.use_mmap THEN 1 ELSE 0,
          mapping |-> IF f.use_mmap THEN 1 ELSE 0,
          converter |-> IF f.converter # "NULL" THEN 1 ELSE 0,
          path |-> IF f.path_capacity > 0 THEN 1 ELSE 0,
          blocks |-> IF f.use_mmap THEN 1 ELSE f.blocks_allocated,
          handle |-> 1 ],
      slots_read |-> f.num_blocks,
      wild_free |-> (beyond = "wild") ]

\* fmp_close_file on the handle fmp_open_file returned.
CloseFile ==
    /\ file_res.err = "FMP_OK"
    /\ close_res.file = NoFile
    /\ \E beyond \in BeyondSlots(file_res.file) :
         close_res' = [close_res EXCEPT !.file = fmp_close_file(file_res.file, beyond)]
    /\ UNCHANGED << image, file_res, buffer_res, block_slots, heap, blockVars, readVars, discVars, pathVars >>

\* fmp_close_file on the handle fmp_open_buffer returned.
CloseBuffer ==
    /\ buffer_res.err = "FMP_OK"
    /\ close_res.buffer = NoFile
    /\ \E beyond \in BeyondSlots(buffer_res.file) :
         close_res' = [close_res EXCEPT !.buffer = fmp_close_file(buffer_res.file, beyond)]
    /\ UNCHANGED << image, file_res, buffer_res, block_slots, heap, blockVars, readVars, discVars, pathVars >>

NextClose == OpenFile \/ OpenBuffer \/ CloseFile \/ CloseBuffer

SpecClose == InitOpen /\ [][NextClose]_vars

\* close(file) on the handle h did what C23 asks of it.
ClosedWell(h, c) ==
    /\ c.released = Acquired(h)
    /\ c.slots_read <= h.blocks_allocated
    /\ ~c.wild_free

\* C23: close(file) after a successful open releases each resource that open
\* acquired exactly once (stream or descriptor plus mapping, converter, path
\* buffer, every block held in the block-pointer array) and reads only
\* block-pointer slots that open allocated, in stream mode and in mapped mode.
C23_CloseReleasesAll ==
    /\ close_res.file # NoFile => ClosedWell(file_res.file, close_res.file)
    /\ close_res.buffer # NoFile => ClosedWell(buffer_res.file, close_res.buffer)

(***************************************************************************)
(* Part 2.  process_blocks and process_chunk_chain.                        *)
(***************************************************************************)

\* process_blocks tracks visited blocks only below this block count.
TrackLimit == 100000

\* Bounds of the modelled files: the highest block ordinal (besides the last
\* block) that a next_id names, and the longest chunk chain of a block.
MaxOrdinal == 4
MaxChunks == 2

\* The history counter of deliveries of one block saturates here.
DeliveredCap == 2

\* The block ordinals a traversal of f can load in the modelled files.
\* In a file without visited tracking every link names block 2, no block
\* or a block beyond the end.
Ordinals(f) ==
    IF f.num_blocks >= TrackLimit
    THEN {2}
    ELSE ((2..MaxOrdinal) \cup {f.num_blocks}) \cap (2..f.num_blocks)

\* The lengths of the chunk chains in the modelled files; a block of a file
\* without visited tracking holds one chunk.
ChainLens(f) == IF f.num_blocks >= TrackLimit THEN {1} ELSE 0..MaxChunks

\* The values the next_id of a loaded block takes in the modelled files.
TargetsOf(f) == Ordinals(f) \cup {0, f.num_blocks + 1}

\* The files the traversal is run on: handles the open paths return.
BlockFiles ==
    { f \in OpenedFiles :
        \/ f.version_num = 7 /\ ~f.use_mmap /\ f.num_blocks \in {1, 2, 3}
        \/ f.version_num = 0 /\ ~f.use_mmap /\ f.num_blocks = 6
        \/ f.version_num = 7 /\ f.use_mmap /\ f.num_blocks \in {25600, 100000} }

\* load_block_from_mmap: NULL for an index outside the file, else the block
\* (cached or decoded from the mapping).
load_block_from_mmap(f, block_idx) ==
    IF block_idx < 0 \/ block_idx >= f.num_blocks THEN "NULL"
    ELSE IF (block_idx + 1) * f.sector_size >= f.file_size THEN "NULL"
    ELSE "block"

\* What the first statements of the loop body of process_blocks obtain for
\* next_block: the outcomes of load_block_from_mmap, or of reading
\* file->blocks[next_block - 1].  The stream path fills every slot below
\* blocks_allocated at open; a slot beyond them was never allocated, and the read
\* yields a null or a wild pointer.
FetchBlock(f, block_idx) ==
    IF f.use_mmap THEN {load_block_from_mmap(f, block_idx)}
    ELSE IF block_idx < f.blocks_allocated THEN {"block"}
    ELSE {"NULL", "wild"}

\* process_block tokenizes the payload of the block into its chunk chain; the
\* tokenizer skips what it does not recognise and reports no error.
process_block(f, block) == "FMP_OK"

\* process_blocks: blocks_visited is allocated for small files only.
TracksVisited(f) == f.num_blocks < TrackLimit

\* process_blocks: int max_iterations = file->num_blocks * 2.
max_iterations(f) == f.num_blocks * 2

\* process_blocks at its entry, on the file.
EnterBlocks ==
    /\ pc = "load"
    /\ next_block = 2
    /\ iteration = 0
    /\ blocks_visited = {}
    /\ retval = "FMP_OK"
    /\ links = [o \in Ordinals(file) |-> -1]
    /\ chain_len = 0
    /\ chunk_no = 0
    /\ delivered = [o \in Ordinals(file) |-> 0]
    /\ done_seen = FALSE
    /\ after_done = FALSE

InitBlocks ==
    /\ IdleOpen
    /\ IdleRead
    /\ IdleDiscover
    /\ IdlePath
    /\ file \in BlockFiles
    /\ EnterBlocks

\* process_blocks, the loop body up to the call of process_chunk_chain: fetch
\* the block, test and set its visited mark, reset the path depth.  The chunk
\* chain of the block holds one of `lens` chunks.
LoadBlock(lens) ==
    /\ pc = "load"
    /\ \E b \in FetchBlock(file, next_block - 1) :
         IF b = "NULL"
         THEN /\ retval' = "FMP_ERROR_BAD_SECTOR"
              /\ pc' = "returned"
              /\ UNCHANGED << blocks_visited, links, chain_len >>
         ELSE IF b = "wild"
         THEN /\ pc' = "crash"
              /\ UNCHANGED << retval, blocks_visited, links, chain_len >>
         ELSE IF TracksVisited(file) /\ next_block - 1 < file.num_blocks
                 /\ (next_block - 1) \in blocks_visited
         THEN /\ retval' = process_block(file, b)
              /\ pc' = "returned"
              /\ UNCHANGED << blocks_visited, links, chain_len >>
         ELSE /\ blocks_visited' =
                    IF TracksVisited(file) /\ next_block - 1 < file.num_blocks
                    THEN blocks_visited \cup {next_block - 1}
                    ELSE blocks_visited
              /\ \E n \in (IF links[next_block] = -1 THEN TargetsOf(file)
                           ELSE {links[next_block]}) :
                    links' = [links EXCEPT ![next_block] = n]
              /\ \E k \in lens : chain_len' = k
              /\ retval' = process_block(file, b)
              /\ pc' = "chain"
    /\ chunk_no' = 0
    /\ UNCHANGED << file, next_block, iteration, delivered, done_seen, after_done >>

\* A slip in the loop: the iteration is not counted.
EndIteration_uncounted(rv) ==
    LET saved_next_id == links[next_block]
    IN /\ retval' = rv
       /\ next_block' = saved_next_id
       /\ iteration' = iteration
       /\ pc' = IF iteration + 1 > max_iterations(file) THEN "returned"
                ELSE IF saved_next_id # 0 /\ saved_next_id - 1 < file.num_blocks
                        /\ rv = "FMP_OK"
                THEN "load"
                ELSE "returned"
       /\ chunk_no' = 0
       /\ UNCHANGED chain_len

\* process_blocks, from the return of process_chunk_chain (with status rv) to
\* the loop condition: follow saved_next_id, count the iteration, decide
\* whether the loop goes on.
EndIteration(rv) ==
    LET saved_next_id == links[next_block]
    IN /\ retval' = rv
       /\ next_block' = saved_next_id
       /\ iteration' = iteration + 1
       /\ pc' = IF iteration + 1 > max_iterations(file) THEN "returned"
                ELSE IF saved_next_id # 0 /\ saved_next_id - 1 < file.num_blocks
                        /\ rv = "FMP_OK"
                THEN "load"
                ELSE "returned"
       /\ chunk_no' = 0
       /\ UNCHANGED chain_len

\* The history of deliveries: a chunk of the current block reaches the consumer.
NoteDelivery ==
    /\ delivered' = IF chunk_no = 0
                    THEN [delivered EXCEPT ![next_block] = Min(@ + 1, DeliveredCap)]
                    ELSE delivered
    /\ after_done' = (after_done \/ done_seen)

\* process_chunk_chain, one turn of its loop: what it does with the status the
\* consumer returned for the chunk.
AfterChunk(status) ==
    IF status = "CHUNK_ABORT" THEN EndIteration("FMP_ERROR_USER_ABORTED")
    ELSE IF status = "CHUNK_DONE" THEN EndIteration("FMP_OK")
    ELSE /\ chunk_no' = chunk_no + 1
         /\ UNCHANGED << retval, next_block, iteration, pc, chain_len >>

\* process_chunk on the next chunk of the block, the consumer returning any
\* of the three codes.
ProcessChunkCodes ==
    /\ pc = "chain"
    /\ chunk_no < chain_len
    /\ \E status \in {"CHUNK_NEXT", "CHUNK_DONE", "CHUNK_ABORT"} :
         /\ AfterChunk(status)
         /\ done_seen' = (done_seen \/ status = "CHUNK_DONE")
    /\ NoteDelivery
    /\ UNCHANGED << file, blocks_visited, links, openVars, readVars, discVars, pathVars >>

\* process_chunk_chain at the end of the chain (chunk == NULL).
ChainEnd ==
    /\ pc = "chain"
    /\ chunk_no = chain_len
    /\ EndIteration("FMP_OK")
    /\ UNCHANGED << file, blocks_visited, links, delivered, done_seen, after_done,
                    openVars, readVars, discVars, pathVars >>

LoadBlockCodes == LoadBlock(ChainLens(file)) /\ UNCHANGED << openVars, readVars, discVars, pathVars >>

NextBlocks == LoadBlockCodes \/ ProcessChunkCodes \/ ChainEnd

SpecBlocks == InitBlocks /\ [][NextBlocks]_vars

\* The traversal is one sequential loop: it takes its next step whenever it has one.
FairBlocks == SpecBlocks /\ WF_vars(NextBlocks)

\* C5: in one pass the chunk chain of a block reaches the consumer at most once.
C5_EachBlockAtMostOnce == \A o \in DOMAIN delivered : delivered[o] <= 1

\* process_blocks is over: it has returned, or the fetch of a block pointer
\* from a slot that was never allocated has ended the program.
Terminated == pc \in {"returned", "crash"}

C7_DoneEndsPass ==
    /\ ~after_done
    /\ (done_seen /\ pc = "returned") => retval = "FMP_OK"

\* C22: when the traversal has followed a next_id that names a block beyond
\* the last block of the file, it ends with FMP_ERROR_BAD_SECTOR (an abort by
\* the consumer in that block aside), on the stream path and the mapped path.
C22_BeyondEndIsBadSector ==
    (/\ pc = "returned" /\ iteration > 0
     /\ next_block > file.num_blocks
     /\ retval # "FMP_ERROR_USER_ABORTED")
    => retval = "FMP_ERROR_BAD_SECTOR"

\* The blocks whose chunk chain process_blocks has handed to
\* process_chunk_chain so far in the pass: iteration counts the loop bodies
\* that went through the call and reached the cap test, and one more body
\* is inside the call while the chain is being walked.
blocks_delivered == iteration + (IF pc = "chain" THEN 1 ELSE 0)

\* C38: one pass delivers at most 2 * num_blocks blocks to the consumer, also
\* in a file without visited tracking.
C38_AtMostTwiceNumBlocks == blocks_delivered <= max_iterations(file)

\* The indices of file->blocks[] the fetch of the block with that index
\* reads: the stream path reads the slot unconditionally, load_block_from_mmap
\* only a slot inside the file and below blocks_allocated.
SlotsRead(f, block_idx) ==
    IF ~f.use_mmap THEN {block_idx}
    ELSE IF block_idx >= 0 /\ block_idx < f.num_blocks /\ block_idx < f.blocks_allocated
    THEN {block_idx}
    ELSE {}

\* C33: for every file open accepts, every access of a traversal to the
\* block-pointer array uses an index below the number of slots allocated; in
\* particular the slot of the first block fetched (ordinal 2) exists.
C33_SlotsAllocated ==
    (pc = "load" /\ file.num_blocks >= 1)
    => \A i \in SlotsRead(file, next_block - 1) : i < file.blocks_allocated

(***************************************************************************)
(* Part 2b.  process_chunk and the path stack.                             *)
(***************************************************************************)

\* Bounds of the modelled chains: the blocks of a pass and the chunks of a
\* block's chain.
MaxPathBlocks == 2
MaxPathChunks == 6

\* The chunk types process_chunk tells apart (DATA_SIMPLE: any other type).
ChunkTypes == {"PATH_PUSH", "PATH_POP", "DATA_SIMPLE"}

\* A slip in process_chunk: PATH_POP decrements without looking at the depth.
process_chunk_pop_unchecked(ctx, type, data) ==
    [ chunk |-> [type |-> type, path_level |-> ctx.path_level],
      ctx |-> IF type = "PATH_POP"
              THEN [ctx EXCEPT !.path_level = @ - 1]
              ELSE IF type = "PATH_PUSH"
              THEN [ctx EXCEPT !.path = Append(@, data), !.path_level = @ + 1]
              ELSE ctx ]

\* A slip in process_chunk: the depth is recorded after the chunk's own push
\* or pop.
process_chunk_level_after(ctx, type, data) ==
    LET after ==
            IF type = "PATH_POP"
            THEN IF ctx.path_level # 0
                 THEN [ctx EXCEPT !.path = SubSeq(@, 1, ctx.path_level - 1),
                                  !.path_level = @ - 1]
                 ELSE ctx
            ELSE IF type = "PATH_PUSH"
            THEN [ctx EXCEPT !.path = Append(@, data), !.path_level = @ + 1]
            ELSE ctx
    IN [ chunk |-> [type |-> type, path_level |-> after.path_level],
         ctx |-> after ]

\* process_chunk up to the call of the consumer: the chunk as the consumer
\* sees it (its type and the depth recorded in it) and the path stack after.
\* ctx.path holds the entries below the depth.
process_chunk(ctx, type, data) ==
    [ chunk |-> [type |-> type, path_level |-> ctx.path_level],
      ctx |-> IF type = "PATH_POP"
              THEN IF ctx.path_level # 0
                   THEN [ctx EXCEPT !.path = SubSeq(@, 1, ctx.path_level - 1),
                                    !.path_level = @ - 1]
                   ELSE ctx
              ELSE IF type = "PATH_PUSH"
              THEN [ctx EXCEPT !.path = Append(@, data),
                               !.path_level = @ + 1,
                               !.path_capacity =
                                   IF ctx.path_level + 1 > @ THEN @ * 2 ELSE @]
              ELSE ctx ]

\* process_blocks about to process its first block.
InitPath ==
    /\ IdleOpen
    /\ IdleRead
    /\ IdleDiscover
    /\ file \in { f \in OpenedFiles :
                    ~f.use_mmap /\ f.version_num \in {0, 7} /\ f.num_blocks = 2 }
    /\ pc = "block" /\ next_block = 0 /\ iteration = 0
    /\ blocks_visited = {} /\ retval = "FMP_OK" /\ links = << >>
    /\ chain_len = 0 /\ chunk_no = 0
    /\ delivered = << >> /\ done_seen = FALSE /\ after_done = FALSE
    /\ file_path = << >>
    /\ path_level = 0
    /\ path_capacity = file.path_capacity
    /\ dispatched = NoFile
    /\ pushes = 0 /\ pops = 0 /\ pops_at_zero = 0
    /\ path_array = << >> /\ consumer = "none"

pathIdle == << openVars, readVars, discVars, file, next_block, blocks_visited,
               links, chain_len, delivered, done_seen, after_done >>

\* process_chunk_chain at its entry: the depth is reset for the block.
StartChain ==
    /\ pc = "block"
    /\ iteration < MaxPathBlocks
    /\ iteration' = iteration + 1
    /\ pc' = "chain"
    /\ chunk_no' = 0
    /\ path_level' = 0
    /\ file_path' = << >>
    /\ dispatched' = NoFile
    /\ pushes' = 0 /\ pops' = 0 /\ pops_at_zero' = 0
    /\ UNCHANGED << retval, path_capacity, path_array, consumer, pathIdle >>

\* process_chunk_chain, one turn of its loop: process_chunk on the next chunk
\* and the status of the consumer.
DispatchChunk ==
    /\ pc = "chain"
    /\ chunk_no < MaxPathChunks
    /\ \E type \in ChunkTypes, status \in {"CHUNK_NEXT", "CHUNK_DONE", "CHUNK_ABORT"} :
         LET r == process_chunk([path |-> file_path, path_level |-> path_level,
                                 path_capacity |-> path_capacity],
                                type, chunk_no + 1)
         IN /\ dispatched' = r.chunk
            /\ file_path' = r.ctx.path
            /\ path_level' = r.ctx.path_level
            /\ path_capacity' = r.ctx.path_capacity
            /\ pushes' = pushes + (IF type = "PATH_PUSH" THEN 1 ELSE 0)
            /\ pops' = pops + (IF type = "PATH_POP" THEN 1 ELSE 0)
            /\ pops_at_zero' = pops_at_zero
                                + (IF type = "PATH_POP" /\ path_level = 0 THEN 1 ELSE 0)
            /\ pc' = IF status = "CHUNK_ABORT" THEN "returned"
                     ELSE IF status = "CHUNK_DONE" THEN "block"
                     ELSE "chain"
            /\ retval' = IF status = "CHUNK_ABORT" THEN "FMP_ERROR_USER_ABORTED"
                         ELSE retval
    /\ chunk_no' = chunk_no + 1
    /\ UNCHANGED << iteration, path_array, consumer, pathIdle >>

\* process_chunk_chain at the end of the chain (chunk == NULL).
EndChain ==
    /\ pc = "chain"
    /\ pc' = "block"
    /\ UNCHANGED << iteration, chunk_no, retval, pathVars, pathIdle >>

NextPath == StartChain \/ DispatchChunk \/ EndChain

SpecPath == InitPath /\ [][NextPath]_vars

\* C19: at the first chunk of every block the path depth is 0; every chunk
\* handed to the consumer records as path_level the depth before its own
\* PATH_PUSH or PATH_POP is applied; path_level is never negative, and a
\* PATH_POP at depth 0 leaves the depth at 0.
C19_RecordedLevel ==
    /\ path_level >= 0
    /\ (pc = "chain" /\ chunk_no = 0) => path_level = 0
    /\ dispatched # NoFile =>
         /\ dispatched.path_level >= 0
         /\ chunk_no = 1 => dispatched.path_level = 0
         /\ dispatched.type = "PATH_PUSH" => path_level = dispatched.path_level + 1
         /\ (dispatched.type = "PATH_POP" /\ path_level > 0) =>
              path_level = dispatched.path_level - 1
         /\ (dispatched.type = "PATH_POP" /\ dispatched.path_level = 0) =>
              path_level = 0
         /\ dispatched.type = "DATA_SIMPLE" => path_level = dispatched.path_level

\* The first chunk of the second block of a pass, a PATH_POP, records depth 0
\* and leaves depth 0.
C19_Witness ==
    /\ iteration = 2 /\ chunk_no = 1
    /\ dispatched = [type |-> "PATH_POP", path_level |-> 0]
    /\ path_level = 0

\* C20 as stated: while a chain is dispatched, the depth after each chunk is
\* the number of PATH_PUSH chunks minus the number of PATH_POP chunks
\* dispatched so far in the block, for every chunk sequence.
C20_NetPushPop ==
    pc # "idle" => path_level = pushes - pops

\* C20: while a chain is dispatched, the depth after each chunk is the number
\* of PATH_PUSH chunks minus the number of PATH_POP chunks dispatched so far
\* in the block, not counting the PATH_POP chunks dispatched at depth 0.
C20_NetPushPopClamped ==
    pc # "idle" => path_level = pushes - (pops - pops_at_zero)

\* A chain with a PATH_POP at depth 0 followed by pushes and a pop.
C20_Witness ==
    /\ pc = "chain"
    /\ pops_at_zero = 1 /\ pops = 2 /\ pushes = 2
    /\ path_level = 1

(***************************************************************************)
(* Part 2d.  process_chunk and the growth of the path array.               *)
(***************************************************************************)

\* The chunks of the modelled chain: enough pushes to outgrow the initial
\* capacity of the array.
MaxGrowChunks == 18

\* What chunk->path, taken from file->path at the entry of process_chunk,
\* denotes when the handler is called: the array of the file ("live"), or,
\* when the push of this chunk made realloc move the array, the block realloc
\* released ("freed").  realloc may also extend the array in place.
chunk_path(level, capacity, type) ==
    IF type = "PATH_PUSH" /\ level + 1 > capacity
    THEN {"live", "freed"}
    ELSE {"live"}

\* process_chunk_chain at its entry on the chain of a block.
InitGrow ==
    /\ IdleOpen
    /\ IdleRead
    /\ IdleDiscover
    /\ file \in { f \in OpenedFiles :
                    ~f.use_mmap /\ f.version_num \in {0, 7} /\ f.num_blocks = 2 }
    /\ pc = "chain" /\ next_block = 0 /\ iteration = 1
    /\ blocks_visited = {} /\ retval = "FMP_OK" /\ links = << >>
    /\ chain_len = 0 /\ chunk_no = 0
    /\ delivered = << >> /\ done_seen = FALSE /\ after_done = FALSE
    /\ file_path = << >>
    /\ path_level = 0
    /\ path_capacity = file.path_capacity
    /\ dispatched = NoFile
    /\ pushes = 0 /\ pops = 0 /\ pops_at_zero = 0
    /\ path_array = << >> /\ consumer = "none"

\* process_chunk_chain, one turn of its loop: process_chunk on the next chunk
\* (every segment is written 0 here) and the call of the handler.
GrowDispatch ==
    /\ pc = "chain"
    /\ chunk_no < MaxGrowChunks
    /\ \E type \in ChunkTypes :
         LET r == process_chunk([path |-> file_path, path_level |-> path_level,
                                 path_capacity |-> path_capacity], type, 0)
         IN /\ \E where \in chunk_path(path_level, path_capacity, type) :
                 dispatched' = [type |-> type, path_level |-> r.chunk.path_level,
                                path |-> where]
            /\ file_path' = r.ctx.path
            /\ path_level' = r.ctx.path_level
            /\ path_capacity' = r.ctx.path_capacity
    /\ chunk_no' = chunk_no + 1
    /\ UNCHANGED << pc, iteration, retval, pushes, pops, pops_at_zero, path_array,
                    consumer, pathIdle >>

\* process_chunk_chain at the end of the chain (chunk == NULL).
GrowEnd ==
    /\ pc = "chain"
    /\ pc' = "block"
    /\ UNCHANGED << iteration, chunk_no, retval, pathVars, pathIdle >>

NextGrow == GrowDispatch \/ GrowEnd

SpecGrow == InitGrow /\ [][NextGrow]_vars

\* C32: when the handler is called for a chunk, the path reference recorded
\* in the chunk denotes the live path array of the file, also for the
\* PATH_PUSH chunk whose push makes the stack outgrow its capacity.
C32_PathIsLive ==
    dispatched # NoFile => dispatched.path = "live"

(***************************************************************************)
(* Part 2e.  process_blocks in mapped mode: the blocks it decodes, caches  *)
(* and frees.                                                              *)
(***************************************************************************)

\* The traversal is followed for this many blocks.
MaxCacheBlocks == 4

\* load_block_from_mmap caches a block only below this index.
HotPrefix == 100

\* The block ordinals the links of the modelled mapped files name: the first
\* block, the last index of the cached prefix, the first index after it, and
\* the first index past the slot array.
CacheOrdinals(f) == {2, HotPrefix, HotPrefix + 1, f.blocks_allocated + 1}

CacheFiles ==
    { f \in OpenedFiles :
        f.use_mmap /\ f.version_num = 7 /\ f.num_blocks \in {25600, 100000} }

\* load_block_from_mmap with the slot array and the blocks decoded so far:
\* NULL outside the file, the cached block if its slot holds one, else a
\* block decoded from the mapping, which is stored in its slot if the index
\* is in the cached prefix and within the slot array.
load_block_cached(f, slots, hp, block_idx) ==
    IF load_block_from_mmap(f, block_idx) = "NULL"
    THEN [block |-> 0, slots |-> slots, heap |-> hp]
    ELSE IF block_idx < f.blocks_allocated /\ block_idx \in DOMAIN slots
    THEN [block |-> slots[block_idx], slots |-> slots, heap |-> hp]
    ELSE LET id == Len(hp) + 1
             decoded == Append(hp, [idx |-> block_idx, state |-> "live", frees |-> 0])
         IN [ block |-> id,
              slots |-> IF block_idx < HotPrefix /\ block_idx < f.blocks_allocated
                        THEN (block_idx :> id) @@ slots
                        ELSE slots,
              heap |-> decoded ]

\* process_blocks: the block pointer of the loop body that is under way, as
\* load_block_from_mmap returned it (the cached block, else the block decoded
\* last).
block_in_hand(slots, hp, block_idx) ==
    IF block_idx \in DOMAIN slots THEN slots[block_idx] ELSE Len(hp)

\* process_blocks: should_free.
should_free(f, slots, block_idx) ==
    f.use_mmap /\ (block_idx >= f.blocks_allocated \/ block_idx \notin DOMAIN slots)

\* free_chunk_chain(block); free(block).
free_block(hp, id) ==
    [hp EXCEPT ![id] = [@ EXCEPT !.state = "freed", !.frees = @ + 1]]

InitCache ==
    /\ image = NoFile /\ file_res = NotCalled /\ buffer_res = NotCalled
    /\ close_res = NotClosed
    /\ IdleRead
    /\ IdleDiscover
    /\ IdlePath
    /\ file \in CacheFiles
    /\ pc = "load" /\ next_block = 2 /\ iteration = 0
    /\ blocks_visited = {} /\ retval = "FMP_OK"
    /\ links = [o \in CacheOrdinals(file) |-> -1]
    /\ chain_len = 0 /\ chunk_no = 0
    /\ delivered = << >> /\ done_seen = FALSE /\ after_done = FALSE
    /\ block_slots = << >>
    /\ heap = << >>

cacheIdle == << image, file_res, buffer_res, close_res, readVars, discVars,
                pathVars, file, chain_len, chunk_no, delivered, done_seen,
                after_done >>

\* process_blocks in mapped mode, the loop body up to the call of
\* process_chunk_chain: load the block, test and set its visited mark.  A
\* block seen before ends the loop at once.
CacheLoad ==
    /\ pc = "load"
    /\ iteration < MaxCacheBlocks
    /\ LET idx == next_block - 1
           r == load_block_cached(file, block_slots, heap, idx)
       IN /\ block_slots' = r.slots
          /\ heap' = r.heap
          /\ IF r.block = 0
             THEN /\ retval' = "FMP_ERROR_BAD_SECTOR"
                  /\ pc' = "returned"
                  /\ UNCHANGED << blocks_visited, links >>
             ELSE IF TracksVisited(file) /\ idx < file.num_blocks
                     /\ idx \in blocks_visited
             THEN /\ retval' = process_block(file, r.block)
                  /\ pc' = "returned"
                  /\ UNCHANGED << blocks_visited, links >>
             ELSE /\ blocks_visited' =
                        IF TracksVisited(file) /\ idx < file.num_blocks
                        THEN blocks_visited \cup {idx}
                        ELSE blocks_visited
                  /\ \E n \in (IF links[next_block] = -1
                               THEN CacheOrdinals(file) \cup {0}
                               ELSE {links[next_block]}) :
                        links' = [links EXCEPT ![next_block] = n]
                  /\ retval' = process_block(file, r.block)
                  /\ pc' = "chain"
    /\ UNCHANGED << next_block, iteration, cacheIdle >>

\* process_blocks in mapped mode, from the call of process_chunk_chain to the
\* loop condition: the chain is processed with either status, the block is
\* freed unless its slot holds it, the link is followed.
CacheChain ==
    /\ pc = "chain"
    /\ \E rv \in {"FMP_OK", "FMP_ERROR_USER_ABORTED"} :
         LET idx == next_block - 1
             saved_next_id == links[next_block]
         IN /\ retval' = rv
            /\ heap' = IF should_free(file, block_slots, idx)
                       THEN free_block(heap, block_in_hand(block_slots, heap, idx))
                       ELSE heap
            /\ next_block' = saved_next_id
            /\ iteration' = iteration + 1
            /\ pc' = IF iteration + 1 > max_iterations(file) THEN "returned"
                     ELSE IF saved_next_id # 0 /\ saved_next_id - 1 < file.num_blocks
                             /\ rv = "FMP_OK"
                     THEN "load"
                     ELSE "returned"
    /\ UNCHANGED << block_slots, blocks_visited, links, cacheIdle >>

NextCache == CacheLoad \/ CacheChain

SpecCache == InitCache /\ [][NextCache]_vars

\* The decoded blocks a slot of file->blocks[] points to.
CachedBlocks == { block_slots[i] : i \in DOMAIN block_slots }

\* C39: in mapped mode a block decoded on demand is cached only with an index
\* below 100 and within the slot array; every other block has been freed
\* when the next block is about to be loaded or the traversal has returned;
\* a cached block is never freed, and no block is freed twice.
C39_CachedOrFreed ==
    /\ \A i \in DOMAIN block_slots : i < HotPrefix /\ i < file.blocks_allocated
    /\ pc \in {"load", "returned"} =>
         \A id \in 1..Len(heap) : id \notin CachedBlocks => heap[id].state = "freed"
    /\ \A id \in CachedBlocks : heap[id].frees = 0
    /\ \A id \in 1..Len(heap) : heap[id].frees <= 1

(***************************************************************************)
(* Part 3.  The metadata of fmp_discover_all_metadata.                     *)
(***************************************************************************)

\* Bounds of the modelled databases: the highest table index and the highest
\* column index a definition carries.
MaxTable == 3
MaxColumn == 2

\* a ^ b on bytes.
RECURSIVE Xor8(_, _)
Xor8(a, b) ==
    IF a = 0 /\ b = 0 THEN 0
    ELSE ((a + b) % 2) + 2 * Xor8(a \div 2, b \div 2)

RECURSIVE TrimLeadingSpaces(_)
TrimLeadingSpaces(bytes) ==
    IF Len(bytes) > 0 /\ bytes[1] = 32 THEN TrimLeadingSpaces(Tail(bytes))
    ELSE bytes

\* convert: unmask the bytes, skip leading spaces, decode what is left with
\* the converter (SCSU when there is none).  The decoded text is kept as the
\* pair of the charset and the bytes it was decoded from.
convert(converter, xor_mask, src) ==
    LET unmasked == IF xor_mask # 0
                    THEN [i \in 1..Len(src) |-> Xor8(xor_mask, src[i])]
                    ELSE src
    IN [ charset |-> IF converter # "NULL" THEN converter ELSE "SCSU",
         bytes |-> TrimLeadingSpaces(unmasked) ]

\* A table entry and a column entry after calloc / memset 0.
ZeroTable == [index |-> 0, utf8_name |-> << >>, skip |-> FALSE]
ZeroColumn == [index |-> 0, utf8_name |-> << >>, type |-> 0, collation |-> 0]

\* A NULL fmp_column_array_t pointer.
NoColumns == [null |-> TRUE]

\* The slots of metadata->columns the modelled databases touch.
ColumnSlots == 0..(MaxTable + 1)

\* calloc(1, sizeof(fmp_metadata_t)) with an empty table array.
ZeroMetadata ==
    [ tables |-> << >>,
      columns |-> [t \in ColumnSlots |-> NoColumns],
      columns_capacity |-> 0 ]

\* Zero entries appended to an array up to the length n.
ZeroExtend(seq, n, zero) ==
    seq \o [i \in 1..(n - Len(seq)) |-> zero]

\* ensure_columns_capacity.  A column array remembers (owner) the table index
\* it was allocated for; the program holds no such field.
ensure_columns_capacity(md, table_index) ==
    LET cap == IF table_index >= md.columns_capacity THEN table_index + 128
               ELSE md.columns_capacity
    IN [md EXCEPT !.columns_capacity = cap,
                  !.columns[table_index] =
                      IF @ = NoColumns
                      THEN [null |-> FALSE, owner |-> table_index, columns |-> << >>]
                      ELSE @]

\* handle_table for a chunk with ref_simple 16.  With table_index 0 the entry
\* written is tables[-1]: the bytes land outside the array, whose entries
\* stay as they are.
handle_table(md, f, data, table_index) ==
    LET grown == [md EXCEPT !.tables = ZeroExtend(@, table_index, ZeroTable)]
        named == IF table_index = 0 THEN grown
                 ELSE [grown EXCEPT !.tables[table_index] =
                      [@ EXCEPT !.utf8_name = convert(f.converter, f.xor_mask, data).bytes,
                                !.index = table_index]]
    IN ensure_columns_capacity(named, table_index)

\* The column type codes of fmp.h.
FMP_COLUMN_TYPE_UNKNOWN == 0
FMP_COLUMN_TYPE_GLOBAL == 8

\* A slip in handle_column: the type byte is stored unchecked.
column_type_unchecked(b) == b

\* handle_column, the type a chunk with ref_simple 2 stores for its byte 1.
column_type(b) ==
    IF b <= FMP_COLUMN_TYPE_GLOBAL THEN b ELSE FMP_COLUMN_TYPE_UNKNOWN

\* handle_column: the array is extended to the column index; a chunk with
\* ref_simple 16 or 1 names the column and sets its index, one with ref_simple
\* 2 sets type and collation from bytes 1 and 3 of its data (read whatever the
\* length: the modelled chunks with ref_simple 2 carry four bytes or more).
\* With column_index 0 the entry written is columns[-1], outside the array.
handle_column(md, f, chunk, table_index, column_index) ==
    LET md1 == ensure_columns_capacity(md, table_index)
        grown == [md1 EXCEPT !.columns[table_index].columns =
                      ZeroExtend(@, column_index, ZeroColumn)]
    IN IF column_index = 0 THEN grown
       ELSE IF chunk.ref_simple = 16 \/ chunk.ref_simple = 1
       THEN [grown EXCEPT !.columns[table_index].columns[column_index] =
                [@ EXCEPT !.utf8_name =
                              convert(f.converter, f.xor_mask, chunk.data).bytes,
                          !.index = column_index]]
       ELSE IF chunk.ref_simple = 2
       THEN [grown EXCEPT !.columns[table_index].columns[column_index] =
                [@ EXCEPT !.type = column_type(chunk.data[2]),
                          !.collation = chunk.data[4]]]
       ELSE grown

\* A slip in the table compaction: the column arrays stay in their slots.
RECURSIVE CompactTables_tables_only(_, _, _)
CompactTables_tables_only(md, i, j) ==
    IF i >= Len(md.tables) THEN [md EXCEPT !.tables = SubSeq(@, 1, j)]
    ELSE IF md.tables[i + 1].index # 0
    THEN CompactTables_tables_only(
             IF i # j THEN [md EXCEPT !.tables[j + 1] = md.tables[i + 1]] ELSE md,
             i + 1, j + 1)
    ELSE CompactTables_tables_only(md, i + 1, j)

\* A slip in the column compaction: the arrays are left as collected.
CompactColumns_kept(md) == md

\* fmp_discover_all_metadata, "Compact tables array": the loop from i with the
\* write position j (both counted from 0), then tables->count = j.
RECURSIVE CompactTables(_, _, _)
CompactTables(md, i, j) ==
    IF i >= Len(md.tables) THEN [md EXCEPT !.tables = SubSeq(@, 1, j)]
    ELSE IF md.tables[i + 1].index # 0
    THEN LET moved ==
                 IF i # j
                 THEN LET t1 == [md EXCEPT !.tables[j + 1] = md.tables[i + 1]]
                      IN IF i + 1 < md.columns_capacity /\ md.columns[i + 1] # NoColumns
                         THEN [t1 EXCEPT !.columns[j + 1] = md.columns[i + 1],
                                         !.columns[i + 1] = NoColumns]
                         ELSE t1
                 ELSE md
         IN CompactTables(moved, i + 1, j + 1)
    ELSE CompactTables(md, i + 1, j)

\* fmp_discover_all_metadata, "Compact columns arrays": in the slots 1..count
\* the entries with an index are moved to the front, in order.
CompactColumns(md) ==
    [md EXCEPT !.columns =
        [t \in ColumnSlots |->
            IF t >= 1 /\ t <= Len(md.tables) /\ t < md.columns_capacity
               /\ md.columns[t] # NoColumns
            THEN [md.columns[t] EXCEPT !.columns =
                      SelectSeq(@, LAMBDA c : c.index # 0)]
            ELSE md.columns[t]]]

\* A chunk as process_chunk hands it to a handler: its type and operands, the
\* path stack of the file (a sequence of byte strings) with its depth, its
\* payload, and the version of the file.
Chunk(f, type, ref_simple, segment_index, path, data) ==
    [ type |-> type, ref_simple |-> ref_simple, segment_index |-> segment_index,
      path |-> path, path_level |-> Len(path), data |-> data,
      version_num |-> f.version_num ]

\* chunk->path[i] (i counted from 0): the path array is calloc'ed, an entry
\* never pushed is NULL, written << >>.
PathAt(chunk, i) ==
    IF i >= 0 /\ i < Len(chunk.path) THEN chunk.path[i + 1] ELSE << >>

path_value(chunk, path) ==
    IF Len(path) = 1 THEN path[1]
    ELSE IF Len(path) = 2 THEN 128 + ((path[1] % 128) * 256) + path[2]
    ELSE IF Len(path) = 3
    THEN IF chunk.version_num < 7
         THEN 49152 + ((path[1] % 64) * 65536) + (path[2] * 256) + path[3]
         ELSE 128 + (path[2] * 256) + path[3]
    ELSE 0

path_is(chunk, path, value) == path_value(chunk, path) = value

table_path_depth(chunk) ==
    IF chunk.version_num < 7 THEN chunk.path_level ELSE chunk.path_level - 1

table_path_match_start1(chunk, depth, val) ==
    IF table_path_depth(chunk) # depth THEN FALSE
    ELSE IF chunk.version_num < 7 THEN path_is(chunk, PathAt(chunk, 0), val)
    ELSE path_value(chunk, PathAt(chunk, 0)) >= 128 /\ path_is(chunk, PathAt(chunk, 1), val)

table_path_match_start2(chunk, depth, val1, val2) ==
    IF table_path_depth(chunk) # depth THEN FALSE
    ELSE IF chunk.version_num < 7
    THEN path_is(chunk, PathAt(chunk, 0), val1) /\ path_is(chunk, PathAt(chunk, 1), val2)
    ELSE /\ path_value(chunk, PathAt(chunk, 0)) >= 128
         /\ path_is(chunk, PathAt(chunk, 1), val1)
         /\ path_is(chunk, PathAt(chunk, 2), val2)

\* handle_chunk_discover_v7: the status and the metadata after the chunk.
handle_chunk_discover_v7(md, f, chunk) ==
    IF /\ path_is(chunk, PathAt(chunk, 0), 3) /\ path_is(chunk, PathAt(chunk, 1), 16)
       /\ path_is(chunk, PathAt(chunk, 2), 5) /\ path_value(chunk, PathAt(chunk, 3)) >= 128
    THEN [ status |-> "CHUNK_NEXT",
           md |-> IF chunk.type = "FIELD_REF_SIMPLE" /\ chunk.ref_simple = 16
                  THEN handle_table(md, f, chunk.data,
                                    path_value(chunk, PathAt(chunk, 3)) - 128)
                  ELSE md ]
    ELSE IF path_value(chunk, PathAt(chunk, 0)) >= 128
    THEN [ status |-> "CHUNK_NEXT",
           md |-> IF /\ chunk.type = "FIELD_REF_SIMPLE"
                     /\ table_path_match_start2(chunk, 3, 3, 5)
                     /\ chunk.ref_simple = 16
                  THEN handle_column(md, f, chunk,
                                     path_value(chunk, PathAt(chunk, 0)) - 128,
                                     path_value(chunk, PathAt(chunk, chunk.path_level - 1)))
                  ELSE md ]
    ELSE IF path_value(chunk, PathAt(chunk, 0)) > 3 /\ path_value(chunk, PathAt(chunk, 0)) < 128
    THEN [status |-> "CHUNK_DONE", md |-> md]
    ELSE [status |-> "CHUNK_NEXT", md |-> md]

\* A slip in handle_chunk_discover_v3: the extension is left on the name.
StripExtension_none(name) == name

\* handle_chunk_discover_v3, "Strip off extension": the loop runs i from
\* len - 1 down to 1 (positions counted from 0) and cuts the name at the first
\* '.' it meets; position 0 is never looked at.
RECURSIVE StripFrom(_, _)
StripFrom(name, i) ==
    IF i <= 0 THEN name
    ELSE IF name[i + 1] = "." THEN SubSeq(name, 1, i)
    ELSE StripFrom(name, i - 1)

StripExtension(name) == StripFrom(name, Len(name) - 1)

\* handle_chunk_discover_v3: the single table is created, named after the
\* file, on the first FIELD_REF_SIMPLE chunk below path 4; a chunk under a
\* column's path goes to handle_column whatever its ref_simple.
handle_chunk_discover_v3(md, f, chunk) ==
    IF path_value(chunk, PathAt(chunk, 0)) > 3 THEN [status |-> "CHUNK_DONE", md |-> md]
    ELSE IF chunk.type # "FIELD_REF_SIMPLE" THEN [status |-> "CHUNK_NEXT", md |-> md]
    ELSE LET md1 == IF Len(md.tables) = 0
                    THEN ensure_columns_capacity(
                             [md EXCEPT !.tables =
                                 << [ZeroTable EXCEPT
                                        !.index = 1,
                                        !.utf8_name = StripExtension(f.filename)] >>], 1)
                    ELSE md
         IN [ status |-> "CHUNK_NEXT",
              md |-> IF table_path_match_start2(chunk, 3, 3, 5)
                     THEN handle_column(md1, f, chunk, 1,
                                        path_value(chunk, PathAt(chunk, chunk.path_level - 1)))
                     ELSE md1 ]

handle_chunk_discover_metadata(md, f, chunk) ==
    IF chunk.version_num >= 7 THEN handle_chunk_discover_v7(md, f, chunk)
    ELSE handle_chunk_discover_v3(md, f, chunk)

\* The metadata after the handler has seen the chunks, in order.
RECURSIVE DiscoverChunks(_, _, _)
DiscoverChunks(md, f, chunks) ==
    IF chunks = << >> THEN md
    ELSE DiscoverChunks(handle_chunk_discover_metadata(md, f, Head(chunks)).md,
                        f, Tail(chunks))

\* fmp_discover_all_metadata on a file whose metadata pass hands the handler
\* these chunks and returns FMP_OK.
fmp_discover_all_metadata(f, chunks) ==
    CompactColumns(CompactTables(DiscoverChunks(ZeroMetadata, f, chunks), 0, 0))

\* The elements of a set of numbers in ascending order.
RECURSIVE Ascending(_)
Ascending(S) ==
    IF S = {} THEN << >>
    ELSE LET m == CHOOSE x \in S : \A y \in S : x <= y
         IN << m >> \o Ascending(S \ {m})

RECURSIVE Concat(_)
Concat(seqs) == IF seqs = << >> THEN << >> ELSE Head(seqs) \o Concat(Tail(seqs))

\* The chunk that defines table t, and the chunk that names column c of table
\* t (of the single table before v7), in a file f.
TableDef(f, t) ==
    Chunk(f, "FIELD_REF_SIMPLE", 16, 0, << <<3>>, <<16>>, <<5>>, <<128 + t>> >>, << 64 + t >>)
ColumnDef(f, t, c) ==
    IF f.version_num >= 7
    THEN Chunk(f, "FIELD_REF_SIMPLE", 16, 0, << <<128 + t>>, <<3>>, <<5>>, <<c>> >>, << 96 + c >>)
    ELSE Chunk(f, "FIELD_REF_SIMPLE", 1, 0, << <<3>>, <<5>>, <<c>> >>, << 96 + c >>)

\* The definition chunks of a database with the tables ts, table t holding the
\* columns cs[t].
DefChunks(f, ts, cs) ==
    LET order == Ascending(ts)
    IN (IF f.version_num >= 7 THEN [i \in 1..Len(order) |-> TableDef(f, order[i])]
        ELSE << >>)
       \o Concat([i \in 1..Len(order) |->
                    LET cols == Ascending(cs[order[i]])
                    IN [k \in 1..Len(cols) |-> ColumnDef(f, order[i], cols[k])]])

\* The table index sets of the modelled databases (one table before v7).
TableSets(f) ==
    IF f.version_num >= 7 THEN SUBSET (1..MaxTable) ELSE {{1}}

\* The metadata fmp_discover_all_metadata returns for the modelled databases;
\* the tables of one database define the same column indices.
DiscoveredMetadata(f) ==
    { fmp_discover_all_metadata(f, DefChunks(f, ts, [t \in ts |-> cols])) :
        ts \in TableSets(f), cols \in SUBSET (1..MaxColumn) }

(***************************************************************************)
(* Part 3b.  The metadata pass, chunk by chunk.                            *)
(***************************************************************************)

\* The column indices of the databases the metadata pass is run on: table 1
\* (the single table before v7) has the columns 1, 2, 5 and 128, the other
\* tables the columns 1 and 2; type chunks come for the columns 1 and 128.
DiscoverColumns(t) == IF t = 1 THEN {1, 2, 5, 128} ELSE {1, 2}
TypedColumns == {1, 128}

\* The base names fmp_open_file stored in file->filename, as character
\* sequences (the images of Part 1 carry no name).
FileNames ==
    { << "d", "b", ".", "f", "p", "3" >>, << "d", "b" >>,
      << "a", ".", "b", ".", "f", "p", "5" >>, << ".", "f", "p", "3" >> }

\* The files the pass is run on: an HBAM7 file, and old-layout files under
\* each of the names.
DiscoverFiles ==
    LET base == { f \in OpenedFiles :
                    ~f.use_mmap /\ f.version_num \in {0, 7} /\ f.num_blocks = 2 }
    IN { f \in base : f.version_num >= 7 }
       \cup { [f EXCEPT !.filename = n] :
                f \in { g \in base : g.version_num < 7 }, n \in FileNames }

\* The path of column c of table t (of the single table before v7).
ColumnPath(f, t, c) ==
    IF f.version_num >= 7 THEN << <<128 + t>>, <<3>>, <<5>>, <<c>> >>
    ELSE << <<3>>, <<5>>, <<c>> >>

\* The chunk that gives type tp and collation k of column c before v7.
TypeDef(f, c, tp, k) ==
    Chunk(f, "FIELD_REF_SIMPLE", 2, 0, ColumnPath(f, 1, c), << 0, tp, 0, k >>)

\* The type bytes and collation bytes of the modelled type chunks.
TypeBytes == {1, FMP_COLUMN_TYPE_GLOBAL, FMP_COLUMN_TYPE_GLOBAL + 1}
CollationBytes == {3}

\* The chunks the pass may hand the handler, each with the names it carries
\* (a pair of table and column, column 0 for the table's own name).
DiscoverInputs(f) ==
    LET ts == IF f.version_num >= 7 THEN 1..MaxTable ELSE {1}
    IN (IF f.version_num >= 7
        THEN { [chunk |-> TableDef(f, t), names |-> { <<t, 0>> }] : t \in ts }
        ELSE { [chunk |-> TypeDef(f, c, tp, k), names |-> {}] :
                 c \in TypedColumns, tp \in TypeBytes, k \in CollationBytes })
       \cup UNION { { [chunk |-> ColumnDef(f, t, c), names |-> { <<t, c>> }] :
                       c \in DiscoverColumns(t) } : t \in ts }
       \cup { [chunk |-> Chunk(f, "FIELD_REF_SIMPLE", 0, 0, ColumnPath(f, 1, 1), << 1 >>),
               names |-> {}],
              [chunk |-> Chunk(f, "DATA_SEGMENT", 0, 0, << <<3>>, <<5>>, <<1>> >>, << 1 >>),
               names |-> {}],
              [chunk |-> Chunk(f, "FIELD_REF_SIMPLE", 1, 0, << <<3>>, <<16>> >>, << 1 >>),
               names |-> {}],
              [chunk |-> Chunk(f, "FIELD_REF_SIMPLE", 1, 0, << <<5>>, <<1>> >>, << 1 >>),
               names |-> {}] }

\* fmp_discover_all_metadata at its entry: calloc'ed metadata, no chunk seen.
InitDiscover ==
    /\ IdleOpen
    /\ file \in DiscoverFiles
    /\ pc = "idle" /\ next_block = 0 /\ iteration = 0
    /\ blocks_visited = {} /\ retval = "FMP_OK" /\ links = << >>
    /\ chain_len = 0 /\ chunk_no = 0
    /\ delivered = << >> /\ done_seen = FALSE /\ after_done = FALSE
    /\ metadata = ZeroMetadata
    /\ table_states = << >> /\ data_no = 0 /\ calls = << >>
    /\ rows_before = << >> /\ aborted_before = FALSE
    /\ result = NoStatus
    /\ names_seen = {}
    /\ last_chunk = NoFile
    /\ fragments = << >>
    /\ long_out = << >>
    /\ IdlePath

discoverIdle == << openVars, file, pc, next_block, iteration, blocks_visited,
                   links, chain_len, chunk_no, delivered, done_seen, after_done,
                   table_states, data_no, calls,
                   rows_before, aborted_before, fragments, long_out, pathVars >>

\* process_blocks hands handle_chunk_discover_metadata one chunk.  (A
\* CHUNK_DONE ends the chain of the block only; the chunks of the following
\* blocks are still handed over.)
DiscoverChunk ==
    /\ result = NoStatus
    /\ metadata # NoFile
    /\ \E in \in DiscoverInputs(file) :
         /\ metadata' = handle_chunk_discover_metadata(metadata, file, in.chunk).md
         /\ names_seen' = names_seen \cup in.names
         /\ last_chunk' = in.chunk
    /\ UNCHANGED << retval, result, discoverIdle >>

\* The statuses process_blocks returns to fmp_discover_all_metadata other than
\* FMP_OK (handle_chunk_discover_metadata never returns CHUNK_ABORT).
DiscoverErrors == {"FMP_ERROR_BAD_SECTOR"}

\* A slip in the tail of fmp_discover_all_metadata: the metadata is returned
\* whatever the status.
DiscoverReturn_always(md, rv) ==
    [ metadata |-> CompactColumns(CompactTables(md, 0, 0)), errorCode |-> rv ]

\* fmp_discover_all_metadata after process_blocks returned rv: the arrays are
\* compacted, *errorCode is set, and on a status other than FMP_OK the
\* metadata is freed and NULL returned.
DiscoverReturn(md, rv) ==
    LET compacted == CompactColumns(CompactTables(md, 0, 0))
    IN [ metadata |-> IF rv # "FMP_OK" THEN NoFile ELSE compacted,
         errorCode |-> rv ]

\* process_blocks returned FMP_OK: the arrays are compacted and the metadata
\* is returned.
FinishDiscover ==
    /\ result = NoStatus
    /\ metadata # NoFile
    /\ retval' = "FMP_OK"
    /\ metadata' = DiscoverReturn(metadata, retval').metadata
    /\ result' = DiscoverReturn(metadata, retval').errorCode
    /\ UNCHANGED << names_seen, last_chunk, discoverIdle >>

\* process_blocks returned an error: the metadata is freed and NULL returned.
AbandonDiscover ==
    /\ result = NoStatus
    /\ metadata # NoFile
    /\ retval' \in DiscoverErrors
    /\ metadata' = DiscoverReturn(metadata, retval').metadata
    /\ result' = DiscoverReturn(metadata, retval').errorCode
    /\ UNCHANGED << names_seen, last_chunk, discoverIdle >>

NextDiscover == DiscoverChunk \/ FinishDiscover \/ AbandonDiscover

SpecDiscover == InitDiscover /\ [][NextDiscover]_vars

\* fmp_discover_all_metadata has returned the metadata.
MetadataReturned == result = "FMP_OK" /\ metadata # NoFile

IndexesOf(seq) == [i \in 1..Len(seq) |-> seq[i].index]

AscendingNonZero(ix) ==
    /\ \A i \in 1..Len(ix) : ix[i] # 0
    /\ \A i \in 1..(Len(ix) - 1) : ix[i] < ix[i + 1]

\* The column indices whose names the handler was handed for table t.
ColumnsSeen(t) == { n[2] : n \in { x \in names_seen : x[1] = t /\ x[2] # 0 } }

\* C13: the table list and every returned table's column list hold no entry
\* with index 0 and keep the original index values in ascending order; a table
\* whose column names arrived at the indices 1, 2, 5 and 128, in any order,
\* is returned with a column list of length 4 holding 1, 2, 5, 128 in order.
C13_CompactedIndexes ==
    MetadataReturned =>
        /\ AscendingNonZero(IndexesOf(metadata.tables))
        /\ \A p \in 1..Len(metadata.tables) :
             /\ metadata.columns[p] # NoColumns
             /\ AscendingNonZero(IndexesOf(metadata.columns[p].columns))
             /\ ColumnsSeen(metadata.tables[p].index) = {1, 2, 5, 128} =>
                  IndexesOf(metadata.columns[p].columns) = << 1, 2, 5, 128 >>

\* The four names of table 1 arrived with column 1 last, table 1 is returned
\* behind a gap, and its list holds the four indices.
C13_Witness ==
    /\ MetadataReturned
    /\ file.version_num >= 7
    /\ last_chunk = ColumnDef(file, 1, 1)
    /\ ColumnsSeen(1) = {1, 2, 5, 128}
    /\ Len(metadata.tables) >= 1 /\ metadata.tables[1].index = 1
    /\ Len(metadata.columns[1].columns) = 4

\* C14: after the pass, for every position p of the compacted table list the
\* slot p of the columns map is the column list collected for the table
\* stored at position p (the table whose original index is tables[p].index),
\* whether or not the table indices had gaps.
C14_ColumnsFollowTables ==
    MetadataReturned =>
        \A p \in 1..Len(metadata.tables) :
            /\ metadata.columns[p] # NoColumns
            /\ metadata.columns[p].owner = metadata.tables[p].index
            /\ { c.index : c \in { metadata.columns[p].columns[i] :
                                     i \in 1..Len(metadata.columns[p].columns) } }
                 = ColumnsSeen(metadata.tables[p].index)

\* Tables 2 and 3 were defined and table 1 never was, though columns of it
\* were named: the two tables are returned at the positions 1 and 2 with
\* their own columns.
C14_Witness ==
    /\ MetadataReturned
    /\ IndexesOf(metadata.tables) = << 2, 3 >>
    /\ ColumnsSeen(1) # {}
    /\ ColumnsSeen(2) = {1, 2} /\ ColumnsSeen(3) = {2}
    /\ IndexesOf(metadata.columns[2].columns) = << 2 >>

\* A base name without its trailing extension: cut at the last '.' that is
\* not the first character; whole when there is none.
BaseWithoutExtension(name) ==
    LET dots == { i \in 2..Len(name) : name[i] = "." }
    IN IF dots = {} THEN name
       ELSE SubSeq(name, 1, (CHOOSE i \in dots : \A k \in dots : k <= i) - 1)

C16_TypeAndCollation ==
    (/\ result = NoStatus /\ last_chunk # NoFile /\ file.version_num < 7
     /\ last_chunk.type = "FIELD_REF_SIMPLE"
     /\ last_chunk.path_level = 3
     /\ last_chunk.path[1] = << 3 >> /\ last_chunk.path[2] = << 5 >>) =>
        LET c == last_chunk.path[3][1]
            col == metadata.columns[1].columns[c]
        IN /\ last_chunk.ref_simple = 2 =>
                /\ col.type = (IF last_chunk.data[2] <= 8 THEN last_chunk.data[2]
                               ELSE 0)
                /\ col.collation = last_chunk.data[4]
           /\ last_chunk.ref_simple = 1 =>
                /\ col.index = c
                /\ col.utf8_name = last_chunk.data

\* Column 128, named before, has just been given the type GLOBAL and the
\* collation 3.
C16_Witness ==
    /\ result = NoStatus /\ file.version_num < 7
    /\ last_chunk = TypeDef(file, 128, 8, 3)
    /\ metadata.columns[1].columns[128].type = 8
    /\ metadata.columns[1].columns[128].collation = 3
    /\ metadata.columns[1].columns[128].index = 128

\* C21: fmp_discover_all_metadata returns a metadata object if and only if the
\* status of the traversal is FMP_OK; on any other status the partial metadata
\* is freed, no metadata is returned, and the status is reported through the
\* error output.
C21_MetadataIffOk ==
    result # NoStatus =>
        /\ result = retval
        /\ (metadata # NoFile) <=> (retval = "FMP_OK")

\* A pass that had collected a table and a column ended with BAD_SECTOR:
\* nothing is returned and the error output holds BAD_SECTOR.
C21_Witness ==
    /\ retval = "FMP_ERROR_BAD_SECTOR" /\ result = "FMP_ERROR_BAD_SECTOR"
    /\ metadata = NoFile
    /\ <<1, 0>> \in names_seen /\ <<1, 1>> \in names_seen

(***************************************************************************)
(* Part 3c.  The metadata pass on definition chunks of every index.        *)
(***************************************************************************)

\* The number of chunks such a pass hands to the handler.
MaxDefChunks == 3

\* The type and ref_simple of the modelled definition chunks.
DefKinds ==
    { [type |-> "FIELD_REF_SIMPLE", ref_simple |-> 16],
      [type |-> "FIELD_REF_SIMPLE", ref_simple |-> 1],
      [type |-> "DATA_SEGMENT", ref_simple |-> 0] }

\* The values of the path segment that names a table and of the innermost
\* segment that names a column.
DefTableSegments == {128, 129, 130}
DefColumnSegments == {0, 1, 2}

\* The chunks such a pass may hand over: under the table-definition path and
\* under the column path every kind with every segment value, and a chunk of
\* a shorter and of a longer path; before v7 names and types of the columns.
DefInputs(f) ==
    IF f.version_num >= 7
    THEN { Chunk(f, k.type, k.ref_simple, 0,
                 << <<3>>, <<16>>, <<5>>, <<seg>> >>, << seg - 64 >>) :
              k \in DefKinds, seg \in DefTableSegments }
         \cup
         { Chunk(f, k.type, k.ref_simple, 0,
                 << <<seg>>, <<3>>, <<5>>, <<c>> >>, << 96 + c >>) :
              k \in DefKinds, seg \in {128, 129}, c \in DefColumnSegments }
         \cup
         { Chunk(f, "FIELD_REF_SIMPLE", 16, 0, << <<129>>, <<3>>, <<5>> >>, << 99 >>),
           Chunk(f, "FIELD_REF_SIMPLE", 16, 0,
                 << <<129>>, <<3>>, <<5>>, <<1>>, <<1>> >>, << 99 >>) }
    ELSE { Chunk(f, "FIELD_REF_SIMPLE", r, 0, << <<3>>, <<5>>, <<c>> >>, << 0, 1, 0, 3 >>) :
              r \in {1, 2}, c \in DefColumnSegments }

\* The indices the handler uses for the chunk as slot index - 1 of the table
\* list (handle_table, the single table before v7) or of a column list
\* (handle_column).
SlotIndexes(chunk) ==
    LET innermost == path_value(chunk, PathAt(chunk, chunk.path_level - 1))
    IN IF chunk.version_num >= 7
       THEN IF /\ path_is(chunk, PathAt(chunk, 0), 3) /\ path_is(chunk, PathAt(chunk, 1), 16)
               /\ path_is(chunk, PathAt(chunk, 2), 5)
               /\ path_value(chunk, PathAt(chunk, 3)) >= 128
            THEN IF chunk.type = "FIELD_REF_SIMPLE" /\ chunk.ref_simple = 16
                 THEN { path_value(chunk, PathAt(chunk, 3)) - 128 }
                 ELSE {}
            ELSE IF /\ path_value(chunk, PathAt(chunk, 0)) >= 128
                    /\ chunk.type = "FIELD_REF_SIMPLE"
                    /\ table_path_match_start2(chunk, 3, 3, 5)
                    /\ chunk.ref_simple = 16
            THEN { innermost }
            ELSE {}
       ELSE IF path_value(chunk, PathAt(chunk, 0)) <= 3 /\ chunk.type = "FIELD_REF_SIMPLE"
            THEN {1} \cup (IF table_path_match_start2(chunk, 3, 3, 5)
                           THEN { innermost } ELSE {})
            ELSE {}

\* The files such a pass is run on.
DefineFiles ==
    { f \in DiscoverFiles :
        f.version_num >= 7 \/ f.filename = << "d", "b", ".", "f", "p", "3" >> }

\* fmp_discover_all_metadata at its entry.
InitDefine ==
    /\ IdleOpen
    /\ file \in DefineFiles
    /\ pc = "idle" /\ next_block = 0 /\ iteration = 0
    /\ blocks_visited = {} /\ retval = "FMP_OK" /\ links = << >>
    /\ chain_len = 0 /\ chunk_no = 0
    /\ delivered = << >> /\ done_seen = FALSE /\ after_done = FALSE
    /\ metadata = ZeroMetadata
    /\ table_states = << >> /\ data_no = 0 /\ calls = << >>
    /\ rows_before = << >> /\ aborted_before = FALSE
    /\ result = NoStatus
    /\ IdleDiscover
    /\ IdlePath

defineIdle == << openVars, file, next_block, iteration, blocks_visited, links,
                 chain_len, chunk_no, delivered, done_seen, after_done,
                 table_states, calls, rows_before, aborted_before, names_seen,
                 fragments, long_out, pathVars >>

\* process_blocks hands handle_chunk_discover_metadata one chunk.  A write to
\* the entry before an array (slot index 0 - 1) ends the program, or lands in
\* memory that is none of the metadata and the pass goes on.
DefineChunk ==
    /\ pc = "idle" /\ result = NoStatus
    /\ data_no < MaxDefChunks
    /\ \E chunk \in DefInputs(file) :
         /\ last_chunk' = chunk
         /\ \E crash \in (IF 0 \in SlotIndexes(chunk) THEN BOOLEAN ELSE {FALSE}) :
              /\ pc' = IF crash THEN "crash" ELSE "idle"
              /\ metadata' = IF crash THEN metadata
                             ELSE handle_chunk_discover_metadata(metadata, file, chunk).md
    /\ data_no' = data_no + 1
    /\ UNCHANGED << retval, result, defineIdle >>

\* process_blocks returns and fmp_discover_all_metadata with it.
DefineReturn ==
    /\ pc = "idle" /\ result = NoStatus
    /\ \E rv \in {"FMP_OK"} \cup DiscoverErrors :
         /\ retval' = rv
         /\ metadata' = DiscoverReturn(metadata, rv).metadata
         /\ result' = DiscoverReturn(metadata, rv).errorCode
    /\ pc' = "done"
    /\ UNCHANGED << data_no, last_chunk, defineIdle >>

NextDefine == DefineChunk \/ DefineReturn

SpecDefine == InitDefine /\ [][NextDefine]_vars

\* C28: in a v7+ file a FIELD_REF_SIMPLE chunk with ref_simple 16 under the
\* path [3, 16, 5, k], k >= 128, defines the table of index k - 128 with the
\* converted chunk data as its name; a chunk under that path with another
\* type or another ref_simple leaves the metadata unchanged.
C28_TableDefinition ==
    [][ LET c == last_chunk'
            k == path_value(c, PathAt(c, 3))
        IN (/\ data_no' = data_no + 1
            /\ file.version_num >= 7
            /\ c.path_level = 4
            /\ path_is(c, PathAt(c, 0), 3) /\ path_is(c, PathAt(c, 1), 16)
            /\ path_is(c, PathAt(c, 2), 5) /\ k >= 128)
           => IF c.type = "FIELD_REF_SIMPLE" /\ c.ref_simple = 16
              THEN \E p \in 1..Len(metadata'.tables) :
                     /\ p = k - 128
                     /\ metadata'.tables[p].index = k - 128
                     /\ metadata'.tables[p].utf8_name
                          = convert(file.converter, file.xor_mask, c.data).bytes
              ELSE metadata' = metadata
      ]_vars

\* C29: in a v7+ file a FIELD_REF_SIMPLE chunk with ref_simple 16 at path
\* level 4 under the path [t, 3, 5, c], t >= 128, names the column c of the
\* table t - 128, c being the value of the innermost segment; a chunk with
\* another ref_simple, type or path depth adds or changes no column.
C29_ColumnDefinition ==
    [][ LET ch == last_chunk'
            t == path_value(ch, PathAt(ch, 0)) - 128
            c == path_value(ch, PathAt(ch, ch.path_level - 1))
        IN (/\ data_no' = data_no + 1
            /\ file.version_num >= 7
            /\ t >= 0
            /\ path_is(ch, PathAt(ch, 1), 3) /\ path_is(ch, PathAt(ch, 2), 5))
           => IF /\ ch.type = "FIELD_REF_SIMPLE" /\ ch.ref_simple = 16
                 /\ ch.path_level = 4
              THEN /\ metadata'.columns[t] # NoColumns
                   /\ \E q \in 1..Len(metadata'.columns[t].columns) :
                        /\ q = c
                        /\ metadata'.columns[t].columns[q].index = c
                        /\ metadata'.columns[t].columns[q].utf8_name
                             = convert(file.converter, file.xor_mask, ch.data).bytes
              ELSE metadata'.columns = metadata.columns
      ]_vars

\* C30: every table index and column index the metadata pass records, or uses
\* as slot index - 1 of the table list or of a column list, is at least 1,
\* whatever the path segments of the chunk (the index recorded in an entry is
\* the one the entry was addressed with).
C30_IndexesAtLeastOne ==
    last_chunk # NoFile => \A i \in SlotIndexes(last_chunk) : i >= 1

(***************************************************************************)
(* Part 3d.  The metadata pass on type chunks (ref_simple 2) of every      *)
(* length.                                                                 *)
(***************************************************************************)

\* The pass is followed for this many chunks.
MaxTypeChunks == 3

\* The payloads of the type chunks: from no byte to the four bytes whose
\* offsets 1 and 3 hold type and collation.
TypeData ==
    { << >>, << 0 >>, << 0, 1 >>, << 0, 1, 0 >>, << 0, 1, 0, 3 >>, << 0, 2, 0, 5 >>,
      << 0, 200, 0, 0 >> }

\* What the memory after the payload of a chunk holds: the bytes of the chunk
\* that follows it in the block, or whatever lies after the block.
BytesBeyond == { << 0, 0, 0, 0 >>, << 2, 0, 7, 0 >>, << 7, 2, 0, 200 >> }

\* The chunks of a pre-v7 file under the column path [3, 5, c]: the name of
\* the column and its type chunk.
TypeInputs(f) ==
    { Chunk(f, "FIELD_REF_SIMPLE", 1, 0, << <<3>>, <<5>>, <<c>> >>, << 96 + c >>) :
        c \in {1, 2} }
    \cup
    { Chunk(f, "FIELD_REF_SIMPLE", 2, 0, << <<3>>, <<5>>, <<c>> >>, d) :
        c \in {1, 2}, d \in TypeData }

\* handle_column reads data.bytes[1] and data.bytes[3] of a ref_simple 2 chunk
\* whatever data.len is: of a shorter payload it finds the bytes that follow
\* it in memory.
ShortTypeChunk(chunk) == chunk.ref_simple = 2 /\ Len(chunk.data) < 4
AsRead(chunk, beyond) ==
    IF ShortTypeChunk(chunk)
    THEN [chunk EXCEPT !.data = SubSeq(chunk.data \o beyond, 1, 4)]
    ELSE chunk

InitType ==
    /\ IdleOpen
    /\ file \in { f \in DefineFiles : f.version_num < 7 }
    /\ pc = "idle" /\ next_block = 0 /\ iteration = 0
    /\ blocks_visited = {} /\ retval = "FMP_OK" /\ links = << >>
    /\ chain_len = 0 /\ chunk_no = 0
    /\ delivered = << >> /\ done_seen = FALSE /\ after_done = FALSE
    /\ metadata = ZeroMetadata
    /\ table_states = << >> /\ data_no = 0 /\ calls = << >>
    /\ rows_before = << >> /\ aborted_before = FALSE
    /\ result = NoStatus
    /\ IdleDiscover
    /\ IdlePath

\* process_blocks hands handle_chunk_discover_metadata one chunk.  The reads
\* past a short payload find any bytes, or touch memory that is not mapped
\* and end the program.
TypeChunk ==
    /\ pc = "idle" /\ result = NoStatus
    /\ data_no < MaxTypeChunks
    /\ \E chunk \in TypeInputs(file) :
         /\ last_chunk' = chunk
         /\ \E crash \in (IF ShortTypeChunk(chunk) THEN BOOLEAN ELSE {FALSE}),
               beyond \in (IF ShortTypeChunk(chunk) THEN BytesBeyond ELSE {<< >>}) :
              /\ pc' = IF crash THEN "crash" ELSE "idle"
              /\ metadata' =
                    IF crash THEN metadata
                    ELSE handle_chunk_discover_metadata(metadata, file,
                                                        AsRead(chunk, beyond)).md
    /\ data_no' = data_no + 1
    /\ UNCHANGED << retval, result, defineIdle >>

NextType == TypeChunk \/ DefineReturn

SpecType == InitType /\ [][NextType]_vars

\* Type and collation of column c of the single table as the metadata under
\* construction has them; those of a zeroed column if the list does not reach c.
TypeAndCollation(md, c) ==
    LET cols == IF md.columns[1] # NoColumns THEN md.columns[1].columns ELSE << >>
        col == IF c <= Len(cols) THEN cols[c] ELSE ZeroColumn
    IN << col.type, col.collation >>

\* C40: the metadata extractor reads the type byte and the collation byte of
\* a ref_simple 2 chunk only when its data holds at least 4 bytes; a shorter
\* chunk leaves type and collation of the column unchanged.
C40_ShortChunkLeavesType ==
    [][ (data_no' = data_no + 1 /\ ShortTypeChunk(last_chunk'))
        => LET c == path_value(last_chunk', PathAt(last_chunk', 2))
           IN /\ pc' # "crash"
              /\ TypeAndCollation(metadata', c) = TypeAndCollation(metadata, c)
      ]_vars

(***************************************************************************)
(* Part 4.  The row assembler of fmp_read_all_values.                      *)
(***************************************************************************)

\* Bounds of the modelled data: the highest row a path names and the number
\* of chunks one pass hands to the row assembler.
MaxRow == 2
MaxDataChunks == 3

\* The codes a value callback returns.
HandlerRets == {"FMP_HANDLER_OK", "FMP_HANDLER_ABORT"}

\* A table_read_state_t after memset 0.  long_string holds the first
\* long_string_used bytes of long_string_buf.
ZeroState ==
    [ current_row |-> 0, last_row |-> 0, last_column |-> 0,
      long_string |-> << >>, columns |-> NoColumns ]

\* ensure_table_state: the state of the table takes the column array found
\* in the slot table_index of the metadata.
ensure_table_state(states, md, table_index) ==
    IF /\ states[table_index].columns = NoColumns
       /\ table_index < md.columns_capacity
       /\ md.columns[table_index] # NoColumns
    THEN [states EXCEPT ![table_index].columns = md.columns[table_index]]
    ELSE states

path_is_table_data(chunk) == table_path_match_start1(chunk, 2, 5)

path_row(chunk) ==
    IF chunk.version_num < 7 THEN path_value(chunk, PathAt(chunk, 1))
    ELSE path_value(chunk, PathAt(chunk, 2))

path_is_long_string(chunk, state) ==
    IF ~table_path_match_start1(chunk, 3, 5) THEN FALSE
    ELSE LET column_index ==
                 path_value(chunk, PathAt(chunk, IF chunk.version_num < 7 THEN 2 ELSE 3))
         IN IF state.last_column = 0 \/ column_index < state.last_column
            THEN path_row(chunk) > state.last_row
            ELSE path_row(chunk) = state.last_row

\* A slip in the column search: an index not in the list finds its first
\* column.
ColumnPos_or_first(cols, index) ==
    IF \E i \in 1..Len(cols) : cols[i].index = index
    THEN CHOOSE i \in 1..Len(cols) :
            /\ cols[i].index = index
            /\ \A k \in 1..(i - 1) : cols[k].index # index
    ELSE IF Len(cols) > 0 THEN 1 ELSE 0

\* The position of the first column with that index in an array, 0 when
\* there is none (the search loops of process_value_for_table).
ColumnPos(cols, index) ==
    IF \E i \in 1..Len(cols) : cols[i].index = index
    THEN CHOOSE i \in 1..Len(cols) :
            /\ cols[i].index = index
            /\ \A k \in 1..(i - 1) : cols[k].index # index
    ELSE 0

\* One invocation of the value callback: its arguments, the table the column
\* array of the column was collected for, the code it returned, and whether
\* the value is a long string that was flushed.
Call(table_index, row, array, column, value, ret, flushed) ==
    [ table |-> table_index, row |-> row, owner |-> array.owner,
      column |-> column.index, value |-> value, ret |-> ret, flushed |-> flushed ]

\* A slip in the row check: a column index below the last one starts no row.
CheckForNewRow_row_only(chunk, state, column) ==
    IF path_row(chunk) # state.last_row THEN state.current_row + 1
    ELSE state.current_row

\* A slip in the row check: the row of the path is taken as the row number.
CheckForNewRow_path_row(chunk, state, column) == path_row(chunk)

\* process_value_for_table, "Check for new row": current_row after it.
CheckForNewRow(chunk, state, column) ==
    IF path_row(chunk) # state.last_row \/ column.index < state.last_column
    THEN state.current_row + 1
    ELSE state.current_row

\* A slip in the resolution of a regular chunk: 252 is taken as a column.
regular_column_index_no_sentinel(chunk, count) ==
    IF chunk.type = "FIELD_REF_SIMPLE" /\ chunk.ref_simple <= count
    THEN chunk.ref_simple
    ELSE IF chunk.type = "DATA_SEGMENT" /\ chunk.segment_index <= count
    THEN chunk.segment_index
    ELSE 0

\* process_value_for_table, the column index of a chunk under a table-data
\* path: ref_simple or segment_index when it is at most columns->count, and
\* never a ref_simple of 252; 0 otherwise.
regular_column_index(chunk, count) ==
    IF /\ chunk.type = "FIELD_REF_SIMPLE"
       /\ chunk.ref_simple <= count /\ chunk.ref_simple # 252
    THEN chunk.ref_simple
    ELSE IF chunk.type = "DATA_SEGMENT" /\ chunk.segment_index <= count
    THEN chunk.segment_index
    ELSE 0

\* process_value_for_table: the status, the state of the table and the
\* invocations of the callback, which returns ret_flush for a flushed long
\* string and ret_value for the value of the chunk.
process_value_for_table(chunk, f, table_index, state, ret_flush, ret_value) ==
    LET skipped == [status |-> "CHUNK_NEXT", state |-> state, calls |-> << >>]
    IN IF state.columns = NoColumns THEN skipped
       ELSE
       LET cols == state.columns.columns
           long_string == path_is_long_string(chunk, state)
           column_index ==
               IF long_string
               THEN path_value(chunk, PathAt(chunk, chunk.path_level - 1))
               ELSE IF path_is_table_data(chunk)
               THEN regular_column_index(chunk, Len(cols))
               ELSE 0
           pos == ColumnPos(cols, column_index)
       IN IF \/ long_string /\ chunk.type = "FIELD_REF_SIMPLE" /\ chunk.ref_simple = 0
             \/ column_index = 0 \/ column_index > Len(cols)
             \/ pos = 0
          THEN skipped
          ELSE
          LET column == cols[pos]
              changed == column.index # state.last_column /\ Len(state.long_string) > 0
              last_pos == ColumnPos(cols, state.last_column)
              flushes == changed /\ state.last_column > 0 /\ last_pos # 0
              flush == Call(table_index, state.current_row, state.columns, cols[last_pos],
                            convert(f.converter, f.xor_mask, state.long_string), ret_flush,
                            TRUE)
              flushed == IF flushes THEN << flush >> ELSE << >>
              s1 == IF changed THEN [state EXCEPT !.long_string = << >>] ELSE state
              s2 == [s1 EXCEPT !.current_row = CheckForNewRow(chunk, s1, column)]
              s3 == [s2 EXCEPT !.last_row = path_row(chunk), !.last_column = column.index]
              value == Call(table_index, s2.current_row, state.columns, column,
                            convert(f.converter, f.xor_mask, chunk.data), ret_value,
                            FALSE)
          IN IF flushes /\ ret_flush = "FMP_HANDLER_ABORT"
             THEN [status |-> "CHUNK_ABORT", state |-> state, calls |-> flushed]
             ELSE IF long_string
             THEN [ status |-> "CHUNK_NEXT",
                    state |-> [s3 EXCEPT !.long_string = @ \o chunk.data],
                    calls |-> flushed ]
             ELSE IF ret_value = "FMP_HANDLER_ABORT"
             THEN [status |-> "CHUNK_ABORT", state |-> s2, calls |-> flushed \o << value >>]
             ELSE [status |-> "CHUNK_NEXT", state |-> s3, calls |-> flushed \o << value >>]

\* The position of the first table with that index, 0 when there is none
\* (the search loop of handle_chunk_read_all_values_v7).
TablePos(tables, index) ==
    IF \E i \in 1..Len(tables) : tables[i].index = index
    THEN CHOOSE i \in 1..Len(tables) :
            /\ tables[i].index = index
            /\ \A k \in 1..(i - 1) : tables[k].index # index
    ELSE 0

\* The handlers of the pass: the status, the table states and the invocations.
OfTable(states, table_index, r) ==
    [ status |-> r.status, states |-> [states EXCEPT ![table_index] = r.state],
      calls |-> r.calls ]

\* A slip in the v7 handler: the skip flag of the table is not looked at.
handle_chunk_read_all_values_v7_no_skip(chunk, f, md, states, ret_flush, ret_value) ==
    LET path0 == path_value(chunk, PathAt(chunk, 0))
        table_index == path0 - 128
        ignored == [status |-> "CHUNK_NEXT", states |-> states, calls |-> << >>]
    IN IF path0 < 128 THEN ignored
       ELSE IF TablePos(md.tables, table_index) = 0
       THEN ignored
       ELSE LET ensured == ensure_table_state(states, md, table_index)
            IN IF chunk.type \notin {"FIELD_REF_SIMPLE", "DATA_SEGMENT"}
               THEN [ignored EXCEPT !.states = ensured]
               ELSE OfTable(ensured, table_index,
                        process_value_for_table(chunk, f, table_index,
                            ensured[table_index], ret_flush, ret_value))

handle_chunk_read_all_values_v7(chunk, f, md, states, ret_flush, ret_value) ==
    LET path0 == path_value(chunk, PathAt(chunk, 0))
        table_index == path0 - 128
        ignored == [status |-> "CHUNK_NEXT", states |-> states, calls |-> << >>]
    IN IF path0 < 128 THEN ignored
       ELSE IF TablePos(md.tables, table_index) = 0
               \/ md.tables[TablePos(md.tables, table_index)].skip
       THEN ignored
       ELSE LET ensured == ensure_table_state(states, md, table_index)
            IN IF chunk.type \notin {"FIELD_REF_SIMPLE", "DATA_SEGMENT"}
               THEN [ignored EXCEPT !.states = ensured]
               ELSE OfTable(ensured, table_index,
                        process_value_for_table(chunk, f, table_index,
                            ensured[table_index], ret_flush, ret_value))

handle_chunk_read_all_values_v3(chunk, f, md, states, ret_flush, ret_value) ==
    IF path_value(chunk, PathAt(chunk, 0)) > 3
    THEN [status |-> "CHUNK_NEXT", states |-> states, calls |-> << >>]
    ELSE LET ensured == ensure_table_state(states, md, 1)
         IN IF chunk.type \notin {"FIELD_REF_SIMPLE", "DATA_SEGMENT"}
            THEN [status |-> "CHUNK_NEXT", states |-> ensured, calls |-> << >>]
            ELSE OfTable(ensured, 1,
                     process_value_for_table(chunk, f, 1, ensured[1], ret_flush, ret_value))

handle_chunk_read_all_values(chunk, f, md, states, ret_flush, ret_value) ==
    IF chunk.version_num >= 7
    THEN handle_chunk_read_all_values_v7(chunk, f, md, states, ret_flush, ret_value)
    ELSE handle_chunk_read_all_values_v3(chunk, f, md, states, ret_flush, ret_value)

\* fmp_read_all_values, "Clean up table states": the invocations that flush
\* the pending long strings, slot by slot from slot i; rets[i] is what the
\* callback returns for slot i.
RECURSIVE CleanUpCalls(_, _, _, _)
CleanUpCalls(f, states, rets, i) ==
    IF i \notin DOMAIN states THEN << >>
    ELSE LET st == states[i]
             last_pos == IF st.columns = NoColumns THEN 0
                         ELSE ColumnPos(st.columns.columns, st.last_column)
         IN (IF Len(st.long_string) > 0 /\ last_pos # 0
             THEN << Call(i, st.current_row, st.columns, st.columns.columns[last_pos],
                          convert(f.converter, f.xor_mask, st.long_string), rets[i],
                          TRUE) >>
             ELSE << >>)
            \o CleanUpCalls(f, states, rets, i + 1)

\* The payload of the k-th chunk of a pass: one byte, 0x7A first (a space
\* under the v7 mask 0x5A), so that the payloads of a pass differ.
DataByte(k) == 121 + k

\* The chunks a pass hands to the row assembler as its k-th: for every table,
\* row and column of the bounds a long-string chunk (path depth 3 below the
\* table: data segment, simple reference, rich-text reference 0) and a value
\* chunk (path depth 2: simple reference or data segment with any key), and a
\* chunk outside the table data.  Before v7 the first path component is 3
\* (the metadata area) or 5.  The PATH_PUSH and PATH_POP chunks that build the
\* path are not dispatched one by one.
DataChunks(f, k) ==
    LET data == << DataByte(k) >>
        starts == IF f.version_num >= 7
                  THEN { << <<128 + t>>, <<5>> >> : t \in 1..MaxTable }
                  ELSE { << <<3>> >>, << <<5>> >> }
    IN { Chunk(f, "FIELD_REF_SIMPLE", r, 0, st \o << <<row>>, <<c>> >>, data) :
            st \in starts, row \in 1..MaxRow, c \in 1..MaxColumn, r \in {0, 1} }
       \cup
       { Chunk(f, "DATA_SEGMENT", 0, 0, st \o << <<row>>, <<c>> >>, data) :
            st \in starts, row \in 1..MaxRow, c \in 1..MaxColumn }
       \cup
       { Chunk(f, "FIELD_REF_SIMPLE", key, 0, st \o << <<row>> >>, data) :
            st \in starts, row \in 1..MaxRow, key \in 0..MaxColumn }
       \cup
       { Chunk(f, "DATA_SEGMENT", 0, key, st \o << <<row>> >>, data) :
            st \in starts, row \in 1..MaxRow, key \in 0..MaxColumn }
       \cup
       { Chunk(f, "FIELD_REF_SIMPLE", 16, 0, << <<3>>, <<16>> >>, data) }

\* The files the row assembler is run on: handles the stream path returns.
ReadFiles ==
    { f \in OpenedFiles :
        ~f.use_mmap /\ f.version_num \in {0, 7} /\ f.num_blocks = 2 }

\* fmp_read_all_values at its entry: the caller passes the file and the
\* metadata fmp_discover_all_metadata returned for it; no table is marked skip.
InitRead ==
    /\ IdleOpen
    /\ IdleDiscover
    /\ IdlePath
    /\ file \in ReadFiles
    /\ EnterBlocks
    /\ metadata \in DiscoveredMetadata(file)
    /\ table_states = [t \in ColumnSlots |-> ZeroState]
    /\ data_no = 0
    /\ calls = << >>
    /\ rows_before = [t \in ColumnSlots |-> 0]
    /\ aborted_before = FALSE
    /\ result = NoStatus

\* The history of invocations: those of the step before move into it.
NoteCalls ==
    /\ rows_before' =
          [t \in DOMAIN rows_before |->
              LET of_t == {i \in 1..Len(calls) : calls[i].table = t}
              IN IF of_t = {} THEN rows_before[t]
                 ELSE calls[CHOOSE i \in of_t : \A k \in of_t : k <= i].row]
    /\ aborted_before' =
          (aborted_before \/ \E i \in 1..Len(calls) : calls[i].ret = "FMP_HANDLER_ABORT")

LoadBlockRead ==
    /\ LoadBlock(0..(MaxDataChunks - data_no))
    /\ calls' = << >>
    /\ NoteCalls
    /\ UNCHANGED << metadata, table_states, data_no, result, openVars, discVars, pathVars >>

\* What handle_chunk_read_all_values may do with the chunk in the current
\* state, the callback returning either code to each invocation.
Outcomes(chunk) ==
    { handle_chunk_read_all_values(chunk, file, metadata, table_states,
                                   ret_flush, ret_value) :
        ret_flush \in HandlerRets, ret_value \in HandlerRets }

\* process_chunk on the next chunk of the block, the consumer being
\* handle_chunk_read_all_values.
ProcessChunkRead ==
    /\ pc = "chain"
    /\ chunk_no < chain_len
    /\ \E chunk \in DataChunks(file, data_no + 1) :
         \E r \in Outcomes(chunk) :
            /\ table_states' = r.states
            /\ calls' = r.calls
            /\ AfterChunk(r.status)
    /\ data_no' = data_no + 1
    /\ NoteCalls
    /\ NoteDelivery
    /\ UNCHANGED << file, blocks_visited, links, done_seen, metadata, result, openVars, discVars, pathVars >>

ChainEndRead ==
    /\ pc = "chain"
    /\ chunk_no = chain_len
    /\ EndIteration("FMP_OK")
    /\ calls' = << >>
    /\ NoteCalls
    /\ UNCHANGED << file, blocks_visited, links, delivered, done_seen, after_done,
                    metadata, table_states, data_no, result, openVars, discVars, pathVars >>

\* The slots whose state holds bytes of a long string.
Pending == {i \in DOMAIN table_states : Len(table_states[i].long_string) > 0}

\* fmp_read_all_values after process_blocks returned: flush the pending long
\* strings, free the states, return retval.
CleanUp ==
    /\ pc = "returned"
    /\ \E rets \in [Pending -> HandlerRets] :
         calls' = CleanUpCalls(file, table_states, rets, 0)
    /\ result' = retval
    /\ pc' = "done"
    /\ NoteCalls
    /\ UNCHANGED << file, next_block, iteration, blocks_visited, retval, links,
                    chain_len, chunk_no, delivered, done_seen, after_done,
                    metadata, table_states, data_no, openVars, discVars, pathVars >>

NextRead == LoadBlockRead \/ ProcessChunkRead \/ ChainEndRead \/ CleanUp

SpecRead == InitRead /\ [][NextRead]_vars

(***************************************************************************)
(* Part 4b.  The row assembler, chunk by chunk, with the history of the     *)
(* long-string fragments and of the long strings delivered.                *)
(***************************************************************************)

\* The number of chunks such a pass hands to the row assembler.
MaxValueChunks == 3

\* The tables the metadata of such a pass lists; table MaxTable is not among
\* them.  The tables of one database have the same columns: all of
\* 1..MaxColumn, or column MaxColumn alone (a column list shorter than the
\* index of its column).
ValueTables == 1..(MaxTable - 1)
ValueColumnSets == {1..MaxColumn, {MaxColumn}}

\* The caller marks the tables it does not want (table->skip) between the
\* metadata pass and the read.
MarkSkip(md, skipped) ==
    [md EXCEPT !.tables =
        [p \in 1..Len(md.tables) |->
            [md.tables[p] EXCEPT !.skip = (md.tables[p].index \in skipped)]]]

\* A long-string fragment of column c in row `row` of table t (path depth 3
\* below the table), and the value of that column (path depth 2, the column
\* being the key).  Before v7 the path starts at `start` instead of a table.
FragmentChunk(f, start, row, c, data) ==
    Chunk(f, "DATA_SEGMENT", 0, 0, << start, <<5>>, <<row>>, <<c>> >>, data)
ValueChunk(f, start, row, c, data) ==
    Chunk(f, "FIELD_REF_SIMPLE", c, 0, << start, <<5>>, <<row>> >>, data)

\* The chunks such a pass may hand over as its k-th, with the table of each.
ValueInputs(f, k) ==
    LET data == << DataByte(k) >>
    IN IF f.version_num >= 7
       THEN { [chunk |-> FragmentChunk(f, <<128 + t>>, row, c, data),
               fragment |-> TRUE, table |-> t, row |-> row, column |-> c] :
                 t \in 1..MaxTable, row \in 1..MaxRow, c \in 1..MaxColumn }
            \cup
            { [chunk |-> ValueChunk(f, <<128 + t>>, row, c, data),
               fragment |-> FALSE, table |-> t, row |-> row, column |-> c] :
                 t \in 1..MaxTable, row \in 1..MaxRow, c \in 1..MaxColumn }
       ELSE { [chunk |-> Chunk(f, "DATA_SEGMENT", 0, 0,
                               << <<st>>, <<row>>, <<c>> >>, data),
               fragment |-> TRUE, table |-> 1, row |-> row, column |-> c] :
                 st \in {3, 5}, row \in 1..MaxRow, c \in 1..MaxColumn }
            \cup
            { [chunk |-> Chunk(f, "FIELD_REF_SIMPLE", c, 0,
                               << <<st>>, <<row>> >>, data),
               fragment |-> FALSE, table |-> 1, row |-> row, column |-> c] :
                 st \in {3, 5}, row \in 1..MaxRow, c \in 1..MaxColumn }

\* fmp_read_all_values at its entry, process_blocks about to hand over the
\* first chunk.
InitValues ==
    /\ IdleOpen
    /\ file \in ReadFiles
    /\ pc = "chain" /\ next_block = 0 /\ iteration = 0
    /\ blocks_visited = {} /\ retval = "FMP_OK" /\ links = << >>
    /\ chain_len = 0 /\ chunk_no = 0
    /\ delivered = << >> /\ done_seen = FALSE /\ after_done = FALSE
    /\ \E skipped \in SUBSET ValueTables, cols \in ValueColumnSets :
         metadata = MarkSkip(
             fmp_discover_all_metadata(file,
                 DefChunks(file, IF file.version_num >= 7 THEN ValueTables ELSE {1},
                           [t \in ValueTables |-> cols])),
             skipped)
    /\ table_states = [t \in ColumnSlots |-> ZeroState]
    /\ data_no = 0
    /\ calls = << >>
    /\ rows_before = << >> /\ aborted_before = FALSE
    /\ result = NoStatus
    /\ names_seen = {} /\ last_chunk = NoFile
    /\ fragments = << >>
    /\ long_out = << >>
    /\ IdlePath

valuesIdle == << openVars, file, next_block, iteration, blocks_visited, links,
                 chain_len, chunk_no, delivered, done_seen, after_done,
                 metadata, rows_before, aborted_before, names_seen, pathVars >>

\* The long strings among the invocations.
LongStrings(cs) == SelectSeq(cs, LAMBDA c : c.flushed)

\* History of a fragment: the current_row of its table when its bytes were
\* put into the buffer, 0 when the step left them out.  (The payloads of a
\* pass differ, so the buffer changes whenever bytes are added.)
BufferedAt(before, after) ==
    IF after.long_string # << >> /\ after.long_string # before.long_string
    THEN after.current_row
    ELSE 0

\* process_blocks hands handle_chunk_read_all_values one chunk; CHUNK_ABORT
\* ends the pass with FMP_ERROR_USER_ABORTED.
ValuesChunk ==
    /\ pc = "chain"
    /\ data_no < MaxValueChunks
    /\ \E in \in ValueInputs(file, data_no + 1) :
         /\ \E r \in Outcomes(in.chunk) :
              /\ table_states' = r.states
              /\ calls' = r.calls
              /\ long_out' = long_out \o LongStrings(r.calls)
              /\ retval' = IF r.status = "CHUNK_ABORT"
                           THEN "FMP_ERROR_USER_ABORTED" ELSE retval
              /\ pc' = IF r.status = "CHUNK_ABORT" THEN "returned" ELSE pc
              /\ fragments' =
                    IF in.fragment
                    THEN Append(fragments,
                                [table |-> in.table, row |-> in.row,
                                 column |-> in.column, data |-> in.chunk.data,
                                 at_row |-> BufferedAt(table_states[in.table],
                                                       r.states[in.table])])
                    ELSE fragments
         /\ last_chunk' = in.chunk
    /\ data_no' = data_no + 1
    /\ UNCHANGED << result, valuesIdle >>

\* process_blocks has handed over the last chunk of the file.
ValuesEnd ==
    /\ pc = "chain"
    /\ pc' = "returned"
    /\ calls' = << >>
    /\ UNCHANGED << retval, table_states, data_no, result, fragments, long_out,
                    last_chunk, valuesIdle >>

\* fmp_read_all_values after process_blocks returned: flush the pending long
\* strings, free the states, return retval.
ValuesCleanUp ==
    /\ pc = "returned"
    /\ \E rets \in [Pending -> HandlerRets] :
         /\ calls' = CleanUpCalls(file, table_states, rets, 0)
         /\ long_out' = long_out \o CleanUpCalls(file, table_states, rets, 0)
    /\ result' = retval
    /\ pc' = "done"
    /\ UNCHANGED << retval, table_states, data_no, fragments, last_chunk,
                    valuesIdle >>

NextValues == ValuesChunk \/ ValuesEnd \/ ValuesCleanUp

SpecValues == InitValues /\ [][NextValues]_vars

\* The fragments handed over for column c of table t, in file order; the
\* rows among them in the order they first appear; the data of one row.
FragmentsOf(t, c) ==
    SelectSeq(fragments, LAMBDA x : x.table = t /\ x.column = c)

RECURSIVE RowOrder(_)
RowOrder(fs) ==
    IF fs = << >> THEN << >>
    ELSE << fs[1].row >>
         \o RowOrder(SelectSeq(Tail(fs), LAMBDA x : x.row # fs[1].row))

RowData(fs, row) ==
    LET of_row == SelectSeq(fs, LAMBDA x : x.row = row)
    IN Concat([i \in 1..Len(of_row) |-> of_row[i].data])

\* The long strings of column c of table t, row by row, and the long strings
\* the callback was handed for it.
ExpectedLong(t, c) ==
    LET fs == FragmentsOf(t, c)
        rows == RowOrder(fs)
    IN [i \in 1..Len(rows) |->
           convert(file.converter, file.xor_mask, RowData(fs, rows[i]))]

DeliveredLong(t, c) ==
    LET out == SelectSeq(long_out, LAMBDA x : x.table = t /\ x.column = c)
    IN [i \in 1..Len(out) |-> out[i].value]

\* The tables of the metadata that are not marked skip.
WantedTables ==
    { metadata.tables[p].index :
        p \in { q \in 1..Len(metadata.tables) : ~metadata.tables[q].skip } }

\* C17: for each table, row and long-string column the callback is handed,
\* exactly once, the concatenation in file order of the data of all the
\* long-string fragments of that row and column (stated for HBAM7 files and
\* a pass that returned FMP_OK: per table and column, the long strings
\* handed to the callback are those of the rows, in order).
C17_LongStringsWhole ==
    (result = "FMP_OK" /\ file.version_num >= 7) =>
        \A t \in WantedTables : \A c \in 1..MaxColumn :
            DeliveredLong(t, c) = ExpectedLong(t, c)

\* C18: fmp_read_all_values never invokes the callback with the index of a
\* table whose skip flag is set, nor with a table index that is not in the
\* table list of the metadata; this includes the flush at the end.
C18_OnlyWantedTables ==
    \A i \in 1..Len(calls) : calls[i].table \in WantedTables

\* A pass over a database with a skipped table has been handed a fragment of
\* the skipped table and one of a table that is not listed, and its final
\* flush hands the callback the long string of a wanted table.
C18_Witness ==
    /\ result # NoStatus
    /\ Len(calls) = 1 /\ calls[1].flushed
    /\ \E p \in 1..Len(metadata.tables) :
         /\ metadata.tables[p].skip
         /\ \E i \in 1..Len(fragments) :
              fragments[i].table = metadata.tables[p].index
    /\ \E i \in 1..Len(fragments) : fragments[i].table = MaxTable

\* The key of a value chunk: ref_simple of a simple reference, segment_index
\* of a data segment.
KeyOf(chunk) ==
    IF chunk.type = "FIELD_REF_SIMPLE" THEN chunk.ref_simple ELSE chunk.segment_index

\* C24: for a file older than v7, a FIELD_REF_SIMPLE or DATA_SEGMENT chunk of
\* the table-data region (path[0] <= 3, a row below it) whose key is the index
\* of a discovered column of table 1 is handed to the callback as a value of
\* table 1 and that column.
C24_Pre7ValueDelivered ==
    (/\ file.version_num < 7 /\ pc = "chain" /\ last_chunk # NoFile
     /\ last_chunk.type \in {"FIELD_REF_SIMPLE", "DATA_SEGMENT"}
     /\ last_chunk.path_level = 2
     /\ path_value(last_chunk, PathAt(last_chunk, 0)) <= 3
     /\ metadata.columns[1] # NoColumns
     /\ ColumnPos(metadata.columns[1].columns, KeyOf(last_chunk)) # 0)
    => \E i \in 1..Len(calls) :
          /\ calls[i].table = 1
          /\ calls[i].column = KeyOf(last_chunk)
          /\ ~calls[i].flushed

\* C25: a long-string fragment addressed to a discovered column of a wanted
\* table, in a later row than the chunk accepted last for that table, is
\* accepted as a long-string fragment (its bytes are buffered under its row
\* and column) whatever its column index is against last_column.
C25_LaterRowAccepted ==
    [][ LET c == last_chunk'
            t == path_value(c, PathAt(c, 0)) - 128
            column_index == path_value(c, PathAt(c, 3))
        IN (/\ data_no' = data_no + 1 /\ pc' = "chain"
            /\ file.version_num >= 7
            /\ c.type = "DATA_SEGMENT" /\ c.path_level = 4
            /\ t \in WantedTables
            /\ ColumnPos(metadata.columns[t].columns, column_index) # 0
            /\ path_row(c) > table_states[t].last_row)
           => /\ table_states'[t].last_row = path_row(c)
              /\ table_states'[t].last_column = column_index
              /\ Len(table_states'[t].long_string) >= Len(c.data)
              /\ SubSeq(table_states'[t].long_string,
                        Len(table_states'[t].long_string) - Len(c.data) + 1,
                        Len(table_states'[t].long_string)) = c.data
      ]_vars

\* C26: a chunk taken as a long-string fragment of a wanted table goes to the
\* column whose index is the value of the innermost path segment, and is
\* skipped only when the table has no column with that index - also when the
\* index is above the number of columns in the compacted list.
C26_FragmentFindsColumn ==
    [][ LET c == last_chunk'
            t == path_value(c, PathAt(c, 0)) - 128
            column_index == path_value(c, PathAt(c, c.path_level - 1))
        IN (/\ data_no' = data_no + 1 /\ pc' = "chain"
            /\ file.version_num >= 7
            /\ c.type = "DATA_SEGMENT"
            /\ t \in WantedTables
            /\ path_is_long_string(c, table_states[t])
            /\ ColumnPos(metadata.columns[t].columns, column_index) # 0)
           => /\ table_states'[t].last_column = column_index
              /\ table_states'[t].last_row = path_row(c)
              /\ Len(table_states'[t].long_string) >= Len(c.data)
      ]_vars

\* The fragments of table t that were buffered before the last step.
BufferedBefore(t) ==
    LET n == Len(fragments)
             - (IF last_chunk # NoFile /\ last_chunk.type = "DATA_SEGMENT" THEN 1 ELSE 0)
    IN SelectSeq(SubSeq(fragments, 1, n), LAMBDA x : x.table = t /\ x.at_row # 0)

\* C27: a long string flushed on a column change is handed to the callback
\* with the column and the row number under which its fragments were
\* buffered, and afterwards the buffer holds nothing of it, for every chunk
\* sequence.
C27_FlushKeepsRow ==
    (result = NoStatus /\ file.version_num >= 7) =>
        \A i \in 1..Len(calls) :
            calls[i].flushed =>
                LET fs == BufferedBefore(calls[i].table)
                IN /\ fs # << >>
                   /\ calls[i].column = fs[Len(fs)].column
                   /\ calls[i].row = fs[Len(fs)].at_row
                   /\ pc = "chain" =>
                        table_states[calls[i].table].long_string
                            \in {<< >>, last_chunk.data}

\* An invocation of the callback, in this step or before it, returned ABORT.
AbortReturned ==
    aborted_before \/ \E i \in 1..Len(calls) : calls[i].ret = "FMP_HANDLER_ABORT"

\* C1: when an invocation of the value callback returned ABORT - for a
\* regular value, for a long string flushed on a column change or for one
\* flushed at the end of the stream - fmp_read_all_values returns
\* FMP_ERROR_USER_ABORTED.
C1_AbortSurfaces ==
    (result # NoStatus /\ AbortReturned) => result = "FMP_ERROR_USER_ABORTED"

\* C2: after an invocation of the value callback returned ABORT the callback
\* is not invoked again before fmp_read_all_values returns.
C2_NoCallAfterAbort ==
    \A i \in 1..Len(calls) :
        /\ ~aborted_before
        /\ \A k \in 1..(i - 1) : calls[k].ret # "FMP_HANDLER_ABORT"

\* C3: the column of every invocation for table index T is one of the column
\* array that the metadata pass collected for table T.
C3_ColumnOfTable ==
    \A i \in 1..Len(calls) : calls[i].owner = calls[i].table

\* The row of the last invocation for the table of calls[i] before calls[i].
RowBefore(i) ==
    LET earlier == {k \in 1..(i - 1) : calls[k].table = calls[i].table}
    IN IF earlier = {} THEN rows_before[calls[i].table]
       ELSE calls[CHOOSE k \in earlier : \A m \in earlier : m <= k].row

\* C4: within one pass the row numbers the callback receives for a table
\* never decrease.
C4_RowsAscend ==
    \A i \in 1..Len(calls) : calls[i].row >= RowBefore(i)

\* A value of a second row of a table reaches the callback after a value of
\* its first row, while values of another table have come in between.
C4_Witness ==
    \E i \in 1..Len(calls) :
        /\ calls[i].row = 2
        /\ RowBefore(i) = 1
        /\ \E t \in DOMAIN rows_before : t # calls[i].table /\ rows_before[t] > 0

(***************************************************************************)
(* Part 4c.  The row assembler on chunks of every key, row and table.      *)
(***************************************************************************)

\* The number of chunks such a pass hands to the row assembler.
MaxAsmChunks == 3

\* process_value_for_table: the ref_simple that is never taken as a column.
MetadataSentinel == 252

\* The column indices of table 1 in the modelled databases: all of
\* 1..MaxColumn, column MaxColumn alone, and a table wide enough to have a
\* column at the sentinel.
AsmColumnSets == { 1..MaxColumn, {MaxColumn}, 1..MetadataSentinel }

\* The keys (ref_simple, segment_index) and the row segments of the modelled
\* chunks, and the column segments of the long-string paths.
AsmKeys == { 0, 1, MaxColumn, MaxColumn + 1, MetadataSentinel }
AsmRows == { 0, 1 }
AsmLongColumns == { 1, MaxColumn + 1 }

\* The chunks such a pass may hand over with the payload data.  Table 1 has
\* columns, table 2 has none, table 3 is not in the metadata: for table 1
\* every type, key and row under the table-data path and every kind of chunk
\* under a long-string path, for the others a value and a fragment.  Before
\* v7 the paths start at 3 and at 5.
AsmInputs(f, data) ==
    IF f.version_num >= 7
    THEN { Chunk(f, "FIELD_REF_SIMPLE", k, 0, << <<129>>, <<5>>, <<row>> >>, data) :
              k \in AsmKeys, row \in AsmRows }
         \cup
         { Chunk(f, "DATA_SEGMENT", 0, k, << <<129>>, <<5>>, <<row>> >>, data) :
              k \in AsmKeys, row \in AsmRows }
         \cup
         { Chunk(f, kind.type, kind.ref_simple, 0,
                 << <<129>>, <<5>>, <<row>>, <<c>> >>, data) :
              kind \in { [type |-> "DATA_SEGMENT", ref_simple |-> 0],
                         [type |-> "FIELD_REF_SIMPLE", ref_simple |-> 0],
                         [type |-> "FIELD_REF_SIMPLE", ref_simple |-> 1] },
              row \in AsmRows, c \in AsmLongColumns }
         \cup
         { Chunk(f, "FIELD_REF_SIMPLE", 1, 0, << <<128 + t>>, <<5>>, <<1>> >>, data) :
              t \in {2, 3} }
         \cup
         { Chunk(f, "DATA_SEGMENT", 0, 0, << <<128 + t>>, <<5>>, <<1>>, <<1>> >>, data) :
              t \in {2, 3} }
    ELSE { Chunk(f, "FIELD_REF_SIMPLE", k, 0, << <<st>>, <<row>> >>, data) :
              st \in {3, 5}, k \in AsmKeys, row \in AsmRows }
         \cup
         { Chunk(f, "DATA_SEGMENT", 0, 0, << <<st>>, <<row>>, <<1>> >>, data) :
              st \in {3, 5}, row \in AsmRows }

\* What fmp_discover_all_metadata returns for a database with table 1 and
\* the columns cols and (from v7 on) a table 2 without columns.  For the wide
\* table the result is written down directly: the definitions of the columns
\* 1..n in ascending order leave n entries, entry c with index c and the
\* converted name, and the compaction moves none.
AsmMetadata(f, cols) ==
    LET ts == IF f.version_num >= 7 THEN {1, 2} ELSE {1}
        few == IF Cardinality(cols) <= MaxColumn THEN cols ELSE 1..MaxColumn
        md == fmp_discover_all_metadata(f,
                  DefChunks(f, ts, [t \in {1, 2} |-> IF t = 1 THEN few ELSE {}]))
    IN IF few = cols THEN md
       ELSE [md EXCEPT !.columns[1].columns =
                [c \in 1..Cardinality(cols) |->
                    [ZeroColumn EXCEPT
                        !.index = c,
                        !.utf8_name = convert(f.converter, f.xor_mask,
                                              << 96 + (c % 16) >>).bytes]]]

\* fmp_read_all_values at its entry, on the metadata of a database with
\* table 1 and its columns and (from v7 on) a table 2 without columns.
InitAssemble ==
    /\ IdleOpen
    /\ file \in ReadFiles
    /\ pc = "chain" /\ next_block = 0 /\ iteration = 0
    /\ blocks_visited = {} /\ retval = "FMP_OK" /\ links = << >>
    /\ chain_len = 0 /\ chunk_no = 0
    /\ delivered = << >> /\ done_seen = FALSE /\ after_done = FALSE
    /\ \E cols \in AsmColumnSets : metadata = AsmMetadata(file, cols)
    /\ table_states = [t \in ColumnSlots |-> ZeroState]
    /\ data_no = 0
    /\ calls = << >>
    /\ rows_before = << >> /\ aborted_before = FALSE
    /\ result = NoStatus
    /\ IdleDiscover
    /\ IdlePath

asmIdle == << openVars, file, next_block, iteration, blocks_visited, links,
              chain_len, chunk_no, delivered, done_seen, after_done,
              metadata, rows_before, aborted_before, names_seen, fragments,
              long_out, pathVars >>

\* process_blocks hands handle_chunk_read_all_values one chunk; CHUNK_ABORT
\* ends the pass with FMP_ERROR_USER_ABORTED.
AsmChunk ==
    /\ pc = "chain"
    /\ data_no < MaxAsmChunks
    /\ \E chunk \in AsmInputs(file, << DataByte(data_no + 1) >>) :
         /\ \E r \in Outcomes(chunk) :
              /\ table_states' = r.states
              /\ calls' = r.calls
              /\ retval' = IF r.status = "CHUNK_ABORT"
                           THEN "FMP_ERROR_USER_ABORTED" ELSE retval
              /\ pc' = IF r.status = "CHUNK_ABORT" THEN "returned" ELSE pc
         /\ last_chunk' = chunk
    /\ data_no' = data_no + 1
    /\ UNCHANGED << result, asmIdle >>

\* process_blocks has handed over the last chunk of the file.
AsmEnd ==
    /\ pc = "chain"
    /\ pc' = "returned"
    /\ calls' = << >>
    /\ UNCHANGED << retval, table_states, data_no, result, last_chunk, asmIdle >>

\* fmp_read_all_values after process_blocks returned: flush the pending long
\* strings, free the states, return retval.
AsmCleanUp ==
    /\ pc = "returned"
    /\ \E rets \in [Pending -> HandlerRets] :
         calls' = CleanUpCalls(file, table_states, rets, 0)
    /\ result' = retval
    /\ pc' = "done"
    /\ UNCHANGED << retval, table_states, data_no, last_chunk, asmIdle >>

NextAssemble == AsmChunk \/ AsmEnd \/ AsmCleanUp

SpecAssemble == InitAssemble /\ [][NextAssemble]_vars

\* C34: every value handed to the callback carries a row number of at least
\* 1, also when the first accepted chunk of a table has the row path value 0.
C34_RowsFromOne ==
    \A i \in 1..Len(calls) : calls[i].row >= 1

\* The table a chunk is looked up for, the number of columns the metadata
\* lists for it, and the key of the chunk.
TableOf(chunk) ==
    IF chunk.version_num >= 7 THEN path_value(chunk, PathAt(chunk, 0)) - 128 ELSE 1
ColumnCount(md, t) ==
    IF t \in DOMAIN md.columns /\ md.columns[t] # NoColumns
    THEN Len(md.columns[t].columns) ELSE 0
KeyIn(chunk) ==
    IF chunk.type = "FIELD_REF_SIMPLE" THEN chunk.ref_simple ELSE chunk.segment_index

\* The row state of the tables: current_row, last_row, last_column and the
\* long-string buffer of each.
RowStates(states) ==
    [t \in DOMAIN states |->
        [ current_row |-> states[t].current_row, last_row |-> states[t].last_row,
          last_column |-> states[t].last_column,
          long_string |-> states[t].long_string ]]

\* C35: a chunk under a table-data path resolves to a column (the callback is
\* invoked or the row state of a table changes) only when its key k
\* satisfies 0 < k <= column count, and never when it is a FIELD_REF_SIMPLE
\* with ref_simple 252; a chunk that does not resolve produces no callback.
C35_KeyWithinColumns ==
    [][ LET c == last_chunk'
        IN (/\ data_no' = data_no + 1
            /\ path_is_table_data(c)
            /\ \/ calls' # << >>
               \/ RowStates(table_states') # RowStates(table_states))
           => /\ 0 < KeyIn(c)
              /\ KeyIn(c) <= ColumnCount(metadata, TableOf(c))
              /\ ~(c.type = "FIELD_REF_SIMPLE" /\ c.ref_simple = MetadataSentinel)
      ]_vars

\* A FIELD_REF_SIMPLE with ref_simple 252 under the data path of a table of
\* 252 columns, after a value of that table was delivered: no callback.
C35_Witness ==
    /\ pc = "chain" /\ data_no >= 2
    /\ last_chunk # NoFile
    /\ path_is_table_data(last_chunk)
    /\ last_chunk.type = "FIELD_REF_SIMPLE"
    /\ last_chunk.ref_simple = MetadataSentinel
    /\ ColumnCount(metadata, TableOf(last_chunk)) >= MetadataSentinel
    /\ table_states[1].last_column = 1
    /\ calls = << >>

\* The invocations for values of chunks (not flushed long strings) among cs.
ValueCalls(cs) == SelectSeq(cs, LAMBDA c : ~c.flushed)

\* The column index the step that handed over the chunk accepted it under,
\* 0 when it did not: the column of the value handed to the callback, or for
\* a fragment whose bytes were appended to the buffer of table t the value
\* of the innermost path segment.  (The payloads of a pass differ and are
\* not empty.)
AcceptedColumn(chunk, t, before, after, cs) ==
    IF ValueCalls(cs) # << >> THEN ValueCalls(cs)[1].column
    ELSE IF /\ after[t].long_string # before[t].long_string
            /\ Len(after[t].long_string) >= Len(chunk.data)
            /\ SubSeq(after[t].long_string,
                      Len(after[t].long_string) - Len(chunk.data) + 1,
                      Len(after[t].long_string)) = chunk.data
    THEN path_value(chunk, PathAt(chunk, chunk.path_level - 1))
    ELSE 0

CarriedColumn(chunk) ==
    IF table_path_match_start1(chunk, 3, 5)
    THEN path_value(chunk, PathAt(chunk, chunk.path_level - 1))
    ELSE KeyIn(chunk)

\* The chunks the row assembler skips: rich-text formatting under a
\* long-string path, a chunk of a table the metadata does not list or lists
\* without columns, and a chunk whose column index is 0, above the column
\* count, the sentinel of a regular FIELD_REF_SIMPLE, or the index of no
\* column of the table.
SkippedChunk(chunk, md) ==
    LET t == TableOf(chunk)
        count == ColumnCount(md, t)
        ci == CarriedColumn(chunk)
    IN \/ /\ chunk.type = "FIELD_REF_SIMPLE" /\ chunk.ref_simple = 0
          /\ table_path_match_start1(chunk, 3, 5)
       \/ chunk.version_num >= 7 /\ \A p \in 1..Len(md.tables) : md.tables[p].index # t
       \/ count = 0
       \/ ci = 0 \/ ci > count
       \/ /\ path_is_table_data(chunk) /\ chunk.type = "FIELD_REF_SIMPLE"
          /\ chunk.ref_simple = MetadataSentinel
       \/ \A i \in 1..count : md.columns[t].columns[i].index # ci

\* C37: a chunk the row assembler skips leaves the row state of every table
\* (current_row, last_row, last_column, the long-string buffer) unchanged
\* and produces no callback.
C37_SkippedChangesNothing ==
    [][ (data_no' = data_no + 1 /\ SkippedChunk(last_chunk', metadata))
        => /\ RowStates(table_states') = RowStates(table_states)
           /\ calls' = << >>
      ]_vars

\* A rich-text chunk under the long-string path of a column whose fragment is
\* in the buffer: no callback, the buffer is as it was.
C37_Witness ==
    /\ pc = "chain" /\ data_no = 2
    /\ last_chunk.type = "FIELD_REF_SIMPLE" /\ last_chunk.ref_simple = 0
    /\ table_path_match_start1(last_chunk, 3, 5)
    /\ TableOf(last_chunk) = 1
    /\ table_states[1].long_string = << DataByte(1) >>
    /\ table_states[1].last_column = 1
    /\ calls = << >>

(***************************************************************************)
(* Part 5.  The path array as the chunk handlers read it.                  *)
(***************************************************************************)

\* Bounds of the modelled passes: the blocks of a pass and the chunks of a
\* block's chain.
MaxSegBlocks == 2
MaxSegChunks == 5

\* A slot of file->path never written (calloc), and a slot a PATH_PUSH wrote:
\* the bytes of the chunk data it points to, the block (counted from 1) whose
\* chunk it points into, and whether that block has been freed since.
NullSlot == [seg |-> << >>, pushed_in |-> 0, freed |-> FALSE]

\* The segments the PATH_PUSH chunks of the modelled files carry at depth d.
SegInputs(d) ==
    IF d = 0 THEN { <<3>>, <<129>> }
    ELSE IF d = 1 THEN { <<16>>, <<5>> }
    ELSE IF d = 2 THEN { <<5>>, <<1>> }
    ELSE { <<129>> }

\* The chunks of the modelled chains at depth d: pushes, a pop, and a
\* FIELD_REF_SIMPLE chunk (a name for the metadata pass, the value of column
\* 1 for the read).
SegChunkInputs(who, d) ==
    { [type |-> "PATH_PUSH", ref_simple |-> 0, data |-> sg] : sg \in SegInputs(d) }
    \cup { [type |-> "PATH_POP", ref_simple |-> 0, data |-> << >>],
           [type |-> "FIELD_REF_SIMPLE",
            ref_simple |-> IF who = "discover" THEN 16 ELSE 1, data |-> << 65 >>] }

\* What a read through a pointer into a freed chunk may find besides the
\* bytes left there.
FreedReads == { <<0>>, <<129>> }

\* process_chunk on the array itself: the depth recorded in the chunk, and
\* the array, the depth and the capacity after.  A pop leaves the entry in
\* its slot; a push overwrites the slot at the depth.
process_chunk_array(arr, level, capacity, type, data, now) ==
    [ path_level |-> level,
      array |-> IF type = "PATH_PUSH"
                THEN [arr EXCEPT ![level + 1] =
                         [seg |-> data, pushed_in |-> now, freed |-> FALSE]]
                ELSE arr,
      level |-> IF type = "PATH_POP" THEN (IF level # 0 THEN level - 1 ELSE level)
                ELSE IF type = "PATH_PUSH" THEN level + 1
                ELSE level,
      capacity |-> IF type = "PATH_PUSH" /\ level + 1 > capacity
                   THEN capacity * 2 ELSE capacity ]

\* chunk->path[0 ..] as a handler may find it: the bytes each slot points to,
\* a slot pointing into a freed block holding the bytes left or other ones.
SeenArrays(arr) ==
    { [i \in 1..Len(arr) |->
          IF arr[i].freed /\ g # << >> THEN g ELSE arr[i].seg] :
        g \in { << >> } \cup FreedReads }

\* The chunk with the slots at and above its recorded depth emptied.
Below(chunk) ==
    [chunk EXCEPT !.path = [i \in 1..Len(chunk.path) |->
                               IF i <= chunk.path_level THEN chunk.path[i] ELSE << >>]]

\* The positions table_path_match_start1 and table_path_match_start2 read.
Start1Reads(chunk, depth) ==
    IF table_path_depth(chunk) # depth THEN {}
    ELSE IF chunk.version_num < 7 THEN {0}
    ELSE {0} \cup (IF path_value(chunk, PathAt(chunk, 0)) >= 128 THEN {1} ELSE {})

Start2Reads(chunk, depth, val1) ==
    IF table_path_depth(chunk) # depth THEN {}
    ELSE IF chunk.version_num < 7
    THEN {0} \cup (IF path_is(chunk, PathAt(chunk, 0), val1) THEN {1} ELSE {})
    ELSE {0} \cup (IF path_value(chunk, PathAt(chunk, 0)) >= 128
                  THEN {1} \cup (IF path_is(chunk, PathAt(chunk, 1), val1)
                                 THEN {2} ELSE {})
                  ELSE {})

\* The positions of chunk->path the metadata handler reads for the chunk.
DiscoverReads(chunk) ==
    IF chunk.version_num >= 7
    THEN LET p0 == path_value(chunk, PathAt(chunk, 0))
             is3 == path_is(chunk, PathAt(chunk, 0), 3)
             is16 == is3 /\ path_is(chunk, PathAt(chunk, 1), 16)
             is5 == is16 /\ path_is(chunk, PathAt(chunk, 2), 5)
         IN {0} \cup (IF is3 THEN {1} ELSE {}) \cup (IF is16 THEN {2} ELSE {})
                \cup (IF is5 THEN {3} ELSE {})
                \cup (IF p0 >= 128 /\ chunk.type = "FIELD_REF_SIMPLE"
                      THEN Start2Reads(chunk, 3, 3)
                           \cup (IF table_path_match_start2(chunk, 3, 3, 5)
                                 THEN {chunk.path_level - 1} ELSE {})
                      ELSE {})
    ELSE {0} \cup (IF /\ path_value(chunk, PathAt(chunk, 0)) <= 3
                      /\ chunk.type = "FIELD_REF_SIMPLE"
                   THEN Start2Reads(chunk, 3, 3)
                        \cup (IF table_path_match_start2(chunk, 3, 3, 5)
                              THEN {chunk.path_level - 1} ELSE {})
                   ELSE {})

\* The positions of chunk->path the row assembler reads for the chunk: the
\* table of the chunk, and for a chunk that reaches process_value_for_table
\* the tests of the path, the column of a long string and the row.
ValueReads(chunk, md, states) ==
    LET p0 == path_value(chunk, PathAt(chunk, 0))
        t == IF chunk.version_num >= 7 THEN p0 - 128 ELSE 1
        reaches ==
            /\ chunk.type \in {"FIELD_REF_SIMPLE", "DATA_SEGMENT"}
            /\ IF chunk.version_num >= 7
               THEN /\ p0 >= 128 /\ TablePos(md.tables, t) # 0
                    /\ ~md.tables[TablePos(md.tables, t)].skip
               ELSE p0 <= 3
            /\ ensure_table_state(states, md, t)[t].columns # NoColumns
        rowpos == IF chunk.version_num < 7 THEN 1 ELSE 2
        colpos == IF chunk.version_num < 7 THEN 2 ELSE 3
    IN {0} \cup
       (IF ~reaches THEN {}
        ELSE Start1Reads(chunk, 3)
             \cup (IF table_path_match_start1(chunk, 3, 5)
                   THEN {colpos, rowpos, chunk.path_level - 1}
                   ELSE Start1Reads(chunk, 2)
                        \cup (IF path_is_table_data(chunk) THEN {rowpos} ELSE {})))

\* The files such a pass runs on: the small files of the stream path, and a
\* mapped HBAM7 file (its blocks from index 100 on are not cached).
SegFiles ==
    { f \in OpenedFiles :
        \/ ~f.use_mmap /\ f.version_num \in {0, 7} /\ f.num_blocks = 2
        \/ f.use_mmap /\ f.version_num = 7 /\ f.num_blocks = 25600 }

\* process_blocks about to process its first block, for the metadata pass
\* (empty metadata) or for the read (the metadata of a database with table 1
\* and its columns).
InitSegments ==
    /\ IdleOpen
    /\ file \in SegFiles
    /\ pc = "block" /\ next_block = 0 /\ iteration = 0
    /\ blocks_visited = {} /\ retval = "FMP_OK" /\ links = << >>
    /\ chain_len = 0 /\ chunk_no = 0
    /\ delivered = << >> /\ done_seen = FALSE /\ after_done = FALSE
    /\ consumer \in {"discover", "read"}
    /\ metadata = IF consumer = "discover" THEN ZeroMetadata
                  ELSE fmp_discover_all_metadata(file,
                           DefChunks(file, {1}, [t \in {1} |-> 1..MaxColumn]))
    /\ table_states = [t \in ColumnSlots |-> ZeroState]
    /\ data_no = 0 /\ calls = << >>
    /\ rows_before = << >> /\ aborted_before = FALSE
    /\ result = NoStatus
    /\ IdleDiscover
    /\ file_path = << >> /\ dispatched = NoFile
    /\ pushes = 0 /\ pops = 0 /\ pops_at_zero = 0
    /\ path_level = 0
    /\ path_capacity = file.path_capacity
    /\ path_array = [i \in 1..MaxSegChunks |-> NullSlot]

segIdle == << openVars, file, next_block, blocks_visited, links, chain_len,
              delivered, done_seen, after_done, data_no, rows_before,
              aborted_before, result, names_seen, fragments, long_out,
              file_path, pushes, pops, pops_at_zero, consumer >>

\* process_blocks between two blocks: in mapped mode the block just processed
\* is freed with its chunks unless it is cached; process_chunk_chain then
\* resets the depth and nothing else.
SegStartChain ==
    /\ pc = "block"
    /\ iteration < MaxSegBlocks
    /\ iteration' = iteration + 1
    /\ pc' = "chain"
    /\ chunk_no' = 0
    /\ path_level' = 0
    /\ \E cached \in (IF file.use_mmap /\ iteration > 0 THEN BOOLEAN ELSE {TRUE}) :
         path_array' = [i \in 1..Len(path_array) |->
                           IF ~cached /\ path_array[i].pushed_in = iteration
                           THEN [path_array[i] EXCEPT !.freed = TRUE]
                           ELSE path_array[i]]
    /\ UNCHANGED << retval, path_capacity, dispatched, last_chunk, metadata,
                    table_states, calls, segIdle >>

\* process_chunk_chain, one turn of its loop: process_chunk on the next chunk
\* and the handler of the pass on it (the value callback returns OK).
SegDispatch ==
    /\ pc = "chain"
    /\ chunk_no < MaxSegChunks
    /\ \E in \in SegChunkInputs(consumer, path_level) :
         LET r == process_chunk_array(path_array, path_level, path_capacity,
                                      in.type, in.data, iteration)
         IN /\ path_array' = r.array
            /\ path_level' = r.level
            /\ path_capacity' = r.capacity
            /\ \E seen \in SeenArrays(r.array) :
                 LET chunk == [Chunk(file, in.type, in.ref_simple, 0, seen, in.data)
                                  EXCEPT !.path_level = r.path_level]
                     d == handle_chunk_discover_metadata(metadata, file, chunk)
                     v == handle_chunk_read_all_values(chunk, file, metadata,
                              table_states, "FMP_HANDLER_OK", "FMP_HANDLER_OK")
                     status == IF consumer = "discover" THEN d.status ELSE v.status
                 IN /\ last_chunk' = chunk
                    /\ dispatched' = [type |-> in.type, path_level |-> r.path_level,
                                      status |-> status]
                    /\ metadata' = IF consumer = "discover" THEN d.md ELSE metadata
                    /\ table_states' = IF consumer = "read" THEN v.states
                                       ELSE table_states
                    /\ calls' = IF consumer = "read" THEN v.calls ELSE << >>
                    /\ pc' = IF status = "CHUNK_DONE" THEN "block" ELSE "chain"
    /\ chunk_no' = chunk_no + 1
    /\ UNCHANGED << iteration, retval, segIdle >>

\* process_chunk_chain at the end of the chain (chunk == NULL).
SegEndChain ==
    /\ pc = "chain"
    /\ pc' = "block"
    /\ UNCHANGED << iteration, chunk_no, retval, path_level, path_capacity,
                    path_array, dispatched, last_chunk, metadata, table_states,
                    calls, segIdle >>

NextSegments == SegStartChain \/ SegDispatch \/ SegEndChain

SpecSegments == InitSegments /\ [][NextSegments]_vars

\* C31: every path segment a handler reads for a chunk lies below the depth
\* recorded in the chunk, so what the handler does with the chunk is what it
\* does when only the segments below that depth are there.
C31_ReadsBelowLevel ==
    [][ chunk_no' = chunk_no + 1 =>
          LET c == last_chunk'
          IN IF consumer = "discover"
             THEN /\ \A i \in DiscoverReads(c) : i < c.path_level
                  /\ handle_chunk_discover_metadata(metadata, file, c)
                       = handle_chunk_discover_metadata(metadata, file, Below(c))
             ELSE /\ \A i \in ValueReads(c, metadata, table_states) : i < c.path_level
                  /\ handle_chunk_read_all_values(c, file, metadata, table_states,
                         "FMP_HANDLER_OK", "FMP_HANDLER_OK")
                       = handle_chunk_read_all_values(Below(c), file, metadata,
                             table_states, "FMP_HANDLER_OK", "FMP_HANDLER_OK")
      ]_vars

=============================================================================
